---- MODULE Spec2Model ----
(***************************************************************************)
(* Aggregation-Service: the job pipeline (fetch -> normalize -> media ->   *)
(* enrichment), its dedup / upsert path, the BullMQ retry and dead-letter  *)
(* handling of the base worker, and the CMS circuit breaker.               *)
(*                                                                         *)
(* Each subsystem has its own specification over its own variables; the    *)
(* variables of the other subsystems are pinned by that specification.     *)
(***************************************************************************)
EXTENDS Integers, Sequences, FiniteSets, Bags, TLC

VARIABLES
    \* ---- CircuitBreaker (src/src/cms/circuit-breaker.ts) ----
    breaker,        \* the private fields of one CircuitBreaker
    now,            \* Date.now(), in ticks
    calls,          \* the execute() calls: where each is
    last,           \* history: the last breaker operation and what it saw
    streak,         \* history: failed calls since the last successful call / reset
    probed,         \* history: calls that succeeded in HALF_OPEN since it was last entered
    \* ---- job store and base worker (src/src/workers/fetch.worker.ts, createWorker) ----
    jobs,           \* the jobs added to the four work queues, by slot
    dlq,            \* the dead-letter queue: the bag of DLQJob records added
    fails,          \* history: per job, how often its processor failed and the last reason
    \* ---- normalize worker, upsert helper, dedup service (src/src/workers/normalize.worker.ts) ----
    redis,          \* the Redis keys of the dedup service and the upsert cache
    cms,            \* the content items the CMS collaborator holds
    norm,           \* per worker slot: the normalize job in execution, its counters
    started,        \* raw items taken up so far
    expired,        \* Redis keys expired so far
    enqueued,       \* the bag of jobs normalize added to the media and AI queues
    returned,       \* history: what the upsertContentItem calls returned
    \* ---- media and AI workers (src/src/workers/media.worker.ts, ai.worker.ts) ----
    content,        \* the collaborator's content items: status, whether media_url is set
    objects,        \* the object store: the content ids with a processed.mp4
    temp,           \* the files in the media temp directory
    exec,           \* per job in execution by the media / AI worker: where its processor is
    \* ---- rate limiter (src/src/services/rate-limiter.ts) ----
    clock,          \* Date.now(), in ticks
    zsets,          \* Redis: per rate-limit key, the sorted set of hits
    rate,           \* per caller: where its consumeRateLimit call is
    consumed,       \* history: the consumeRateLimit calls in the order they were made
    \* ---- dedup service: idempotency keys (src/unnamed/part_009) ----
    keyed,          \* the URL a key was generated for, the key, and the keys compared with it
    \* ---- fetch worker (src/unnamed/part_002) ----
    fetching,       \* per fetch job in execution: where its processor is, the adapter's result
    \* ---- scheduler (src/src/services/scheduler.service.ts) ----
    repeatables,    \* the job store's repeatable entries of the fetch queue
    scheduling,     \* per source: the scheduleSource call that awaits its fetchQueue.add
    lastCall,       \* history: the scheduler call that returned last
    \* ---- shutdown (src/src/index.ts, src/src/workers/index.ts) ----
    shutdown,       \* where the process is: running, a step of shutdown(), exited
    workers,        \* per worker: whether close() was called, its jobs in execution
    conns           \* the queue connections and the Redis connection: open or closed

breakerVars == <<breaker, now, calls, last, streak, probed>>
jobVars == <<jobs, dlq, fails>>

normVars == <<redis, cms, norm, started, expired, enqueued, returned>>

mediaVars == <<content, objects, temp, exec>>

rateVars == <<clock, zsets, rate, consumed>>

keyVars == <<keyed>>

fetchVars == <<fetching>>

schedVars == <<repeatables, scheduling, lastCall>>

shutVars == <<shutdown, workers, conns>>

vars == <<breaker, now, calls, last, streak, probed, jobs, dlq, fails,
          redis, cms, norm, started, expired, enqueued, returned,
          content, objects, temp, exec, clock, zsets, rate, consumed, keyed, fetching,
          repeatables, scheduling, lastCall, shutdown, workers, conns>>

\* what an action of one subsystem leaves alone: the variables of the others
outsideBreaker == <<jobVars, normVars, mediaVars, rateVars, keyVars, fetchVars, schedVars, shutVars>>
outsideJobs == <<breakerVars, normVars, mediaVars, rateVars, keyVars, fetchVars, schedVars, shutVars>>
outsideNormalize == <<breakerVars, jobVars, mediaVars, rateVars, keyVars, fetchVars, schedVars, shutVars>>
outsideCms == <<jobVars, mediaVars, rateVars, keyVars, fetchVars, schedVars, shutVars>>
outsideMedia == <<breakerVars, normVars, rateVars, keyVars, fetchVars, schedVars, shutVars>>
outsideRate == <<breakerVars, jobVars, normVars, mediaVars, keyVars, fetchVars, schedVars, shutVars>>
outsideKeys == <<breakerVars, jobVars, normVars, mediaVars, rateVars, fetchVars, schedVars, shutVars>>
outsideScheduler ==
    <<breakerVars, jobVars, normVars, mediaVars, rateVars, keyVars, fetchVars, shutVars>>
outsideShutdown ==
    <<breakerVars, jobVars, normVars, mediaVars, rateVars, keyVars, fetchVars, schedVars>>
outsideFetch == <<breakerVars, normVars, mediaVars, rateVars, keyVars, schedVars, shutVars>>

(***************************************************************************)
(*                           CIRCUIT BREAKER                               *)
(***************************************************************************)

\* enum CircuitState
CLOSED == "CLOSED"
OPEN == "OPEN"
HALF_OPEN == "HALF_OPEN"

\* The configuration of the breaker under test (tests/failure/circuit-breaker.test.ts),
\* the reset timeout in clock ticks.
failureThreshold == 3
resetTimeout == 2
halfOpenRequests == 2

\* Bounds of the breaker model.
MaxCalls == 2
MaxTime == 5

Calls == 1..MaxCalls

\* Date.now() - this.lastFailureTime >= this.config.resetTimeout
TimeoutElapsedStrict(b, t) == t - b.lastFailureTime > resetTimeout
TimeoutElapsed(b, t) == t - b.lastFailureTime >= resetTimeout

\* this.halfOpenAttempts >= this.config.halfOpenRequests
ProbeSlotsTakenStrict(b) == b.halfOpenAttempts > halfOpenRequests
ProbeSlotsTaken(b) == b.halfOpenAttempts >= halfOpenRequests

\* this.failureCount >= this.config.failureThreshold
ThresholdReachedStrict(b) == b.failureCount > failureThreshold
ThresholdReached(b) == b.failureCount >= failureThreshold

\* this.successCount >= this.config.halfOpenRequests
ProbesSucceededStrict(b) == b.successCount > halfOpenRequests
ProbesSucceeded(b) == b.successCount >= halfOpenRequests

\* private transitionTo(newState)
TransitionTo(b, newState) ==
    IF newState = CLOSED
    THEN [b EXCEPT !.state = CLOSED, !.failureCount = 0,
                   !.successCount = 0, !.halfOpenAttempts = 0]
    ELSE IF newState = HALF_OPEN
    THEN [b EXCEPT !.state = HALF_OPEN, !.successCount = 0, !.halfOpenAttempts = 0]
    ELSE [b EXCEPT !.state = newState]

\* private onSuccess()
OnSuccessKeepsCount(b) ==
    IF b.state = HALF_OPEN
    THEN LET b1 == [b EXCEPT !.successCount = @ + 1]
         IN IF ProbesSucceeded(b1) THEN TransitionTo(b1, CLOSED) ELSE b1
    ELSE b
OnSuccess(b) ==
    IF b.state = HALF_OPEN
    THEN LET b1 == [b EXCEPT !.successCount = @ + 1]
         IN IF ProbesSucceeded(b1) THEN TransitionTo(b1, CLOSED) ELSE b1
    ELSE IF b.state = CLOSED
    THEN [b EXCEPT !.failureCount = 0]
    ELSE b

\* private onFailure()
OnFailureKeepsTime(b, t) ==
    LET b1 == [b EXCEPT !.failureCount = @ + 1]
    IN IF b1.state = HALF_OPEN
       THEN TransitionTo(b1, OPEN)
       ELSE IF b1.state = CLOSED /\ ThresholdReached(b1)
       THEN TransitionTo(b1, OPEN)
       ELSE [b1 EXCEPT !.lastFailureTime = t]
OnFailure(b, t) ==
    LET b1 == [b EXCEPT !.failureCount = @ + 1, !.lastFailureTime = t]
    IN IF b1.state = HALF_OPEN
       THEN TransitionTo(b1, OPEN)
       ELSE IF b1.state = CLOSED /\ ThresholdReached(b1)
       THEN TransitionTo(b1, OPEN)
       ELSE b1

\* The synchronous head of execute(fn), up to the call of fn: the breaker after it,
\* and whether CircuitOpenError was thrown instead of calling fn.
ExecuteEntry(b, t) ==
    LET afterOpen ==
            IF b.state = OPEN
            THEN IF TimeoutElapsed(b, t)
                 THEN [b |-> TransitionTo(b, HALF_OPEN), thrown |-> FALSE]
                 ELSE [b |-> b, thrown |-> TRUE]
            ELSE [b |-> b, thrown |-> FALSE]
        b1 == afterOpen.b
    IN IF afterOpen.thrown
       THEN [b |-> b1, thrown |-> TRUE, probe |-> FALSE]
       ELSE IF b1.state = HALF_OPEN
       THEN IF ProbeSlotsTaken(b1)
            THEN [b |-> b1, thrown |-> TRUE, probe |-> FALSE]
            ELSE [b |-> [b1 EXCEPT !.halfOpenAttempts = @ + 1],
                  thrown |-> FALSE, probe |-> TRUE]
       ELSE [b |-> b1, thrown |-> FALSE, probe |-> FALSE]

\* What the history variable records of an operation: the state it found, whether
\* reset_timeout had elapsed since the last recorded failure, the probe slots taken.
Seen(op, c, outcome) ==
    [op |-> op, call |-> c, pre |-> breaker.state,
     elapsed |-> (now - breaker.lastFailureTime >= resetTimeout),
     slots |-> breaker.halfOpenAttempts, outcome |-> outcome]

\* A call slot with no call in flight.  Of a call in flight: probe, whether execute
\* admitted it while HALF_OPEN (it took a probe slot); earlier, whether it was already
\* in flight when the breaker last entered HALF_OPEN.
Idle == [pc |-> "idle", probe |-> FALSE, earlier |-> FALSE]

\* the calls in flight, when the breaker goes from b to b2: those in flight as it
\* enters HALF_OPEN were admitted before that half-open period began
Outlive(cs, b, b2) ==
    IF b.state # HALF_OPEN /\ b2.state = HALF_OPEN
    THEN [c \in DOMAIN cs |->
             IF cs[c].pc = "running" THEN [cs[c] EXCEPT !.earlier = TRUE] ELSE cs[c]]
    ELSE cs

BreakerInit ==
    /\ breaker = [state |-> CLOSED, failureCount |-> 0, successCount |-> 0,
                  lastFailureTime |-> 0, halfOpenAttempts |-> 0]
    /\ now = 0
    /\ calls = [c \in Calls |-> Idle]
    /\ last = [op |-> "none", call |-> 0, pre |-> CLOSED, elapsed |-> FALSE,
               slots |-> 0, outcome |-> "none"]
    /\ streak = 0
    /\ probed = 0

\* execute(fn): the head of the call; fn is then in flight, or CircuitOpenError is thrown
Execute(c) ==
    /\ calls[c].pc = "idle"
    /\ LET e == ExecuteEntry(breaker, now)
       IN /\ breaker' = e.b
          /\ calls' = [Outlive(calls, breaker, e.b) EXCEPT ![c] =
                          IF e.thrown THEN Idle
                          ELSE [pc |-> "running", probe |-> e.probe, earlier |-> FALSE]]
          /\ last' = Seen("execute", c, IF e.thrown THEN "rejected" ELSE "invoked")
          /\ probed' = IF breaker.state = OPEN /\ e.b.state = HALF_OPEN THEN 0 ELSE probed
    /\ UNCHANGED <<now, streak>>
    /\ UNCHANGED outsideBreaker

\* fn resolves: onSuccess()
Succeed(c) ==
    /\ calls[c].pc = "running"
    /\ breaker' = OnSuccess(breaker)
    /\ calls' = [calls EXCEPT ![c] = Idle]
    /\ last' = Seen("success", c, "none")
    /\ streak' = 0
    /\ probed' = IF breaker.state = HALF_OPEN THEN probed + 1 ELSE probed
    /\ UNCHANGED now
    /\ UNCHANGED outsideBreaker

\* fn rejects: onFailure()
Fail(c) ==
    /\ calls[c].pc = "running"
    /\ breaker' = OnFailure(breaker, now)
    /\ calls' = [calls EXCEPT ![c] = Idle]
    /\ last' = Seen("failure", c, "none")
    /\ streak' = streak + 1
    /\ UNCHANGED <<now, probed>>
    /\ UNCHANGED outsideBreaker

\* getState()
GetState ==
    /\ breaker' = IF breaker.state = OPEN /\ TimeoutElapsed(breaker, now)
                  THEN TransitionTo(breaker, HALF_OPEN)
                  ELSE breaker
    /\ calls' = Outlive(calls, breaker, breaker')
    /\ last' = Seen("getState", 0, "none")
    /\ probed' = IF breaker'.state # breaker.state THEN 0 ELSE probed
    /\ UNCHANGED <<now, streak>>
    /\ UNCHANGED outsideBreaker

\* reset()
Reset ==
    /\ breaker' = TransitionTo(breaker, CLOSED)
    /\ last' = Seen("reset", 0, "none")
    /\ streak' = 0
    /\ probed' = 0
    /\ UNCHANGED <<now, calls>>
    /\ UNCHANGED outsideBreaker

\* the clock advances
Tick ==
    /\ now < MaxTime
    /\ now' = now + 1
    /\ UNCHANGED <<breaker, calls, last, streak, probed>>
    /\ UNCHANGED outsideBreaker

BreakerNext ==
    \/ \E c \in Calls : Execute(c)
    \/ \E c \in Calls : Succeed(c)
    \/ \E c \in Calls : Fail(c)
    \/ GetState
    \/ Reset
    \/ Tick

(***************************************************************************)
(*            JOB STORE, BASE WORKER AND DEAD-LETTER QUEUE                 *)
(***************************************************************************)

\* QUEUE_NAMES without the DLQ: the queues a worker is registered for (workers/index.ts)
WorkQueues == {"fetch", "normalize", "media", "ai"}

\* defaultJobOptions.attempts (queues/index.ts): the attempt budget of a job added
\* without an attempts option
attempts == 3

\* Bounds of the job-store model.
MaxJobs == 2
Payloads == {"p1", "p2"}
Errors == {"e1", "e2"}

\* job.id: the job store numbers the jobs of each queue from 1
NextJobId(q) == Cardinality({n \in DOMAIN jobs : jobs[n].queue = q}) + 1

\* queue.add(name, data, opts): opts.attempts defaults to defaultJobOptions.attempts,
\* opts.delay (ms the job store holds the job back before a worker may reserve it) to 0
QueueAdd(q, data, budget) ==
    [queue |-> q, id |-> NextJobId(q), data |-> data,
     opts |-> [attempts |-> budget, delay |-> 0], attemptsMade |-> 0, state |-> "waiting"]

\* The job store's move of a job whose processor threw: the attempt is counted, and
\* the job waits again (once its backoff delay has passed) while attempts are left.
MoveToFailed(job) ==
    LET made == job.attemptsMade + 1
    IN [job EXCEPT !.attemptsMade = made,
                   !.state = IF made < job.opts.attempts THEN "waiting" ELSE "failed"]

\* worker.on('failed'): job.opts.attempts && attemptsMade >= job.opts.attempts
ShouldDeadLetterAlways(job) == job.opts.attempts # 0
ShouldDeadLetter(job) ==
    job.opts.attempts # 0 /\ job.attemptsMade >= job.opts.attempts

\* moveToDeadLetterQueue(job, originalQueue, failureReason): the DLQJob it adds
DLQJob(job, originalQueue, failureReason) ==
    [originalQueue |-> originalQueue,
     originalJobId |-> job.id,
     originalJobData |-> job.data,
     failureReason |-> failureReason,
     attemptsMade |-> job.attemptsMade]

JobsInit ==
    /\ jobs = <<>>
    /\ dlq = EmptyBag
    /\ fails = <<>>

\* a producer adds a job to a work queue (no attempts option: the queue's default)
AddJob(q, data) ==
    /\ Len(jobs) < MaxJobs
    /\ jobs' = Append(jobs, QueueAdd(q, data, attempts))
    /\ fails' = Append(fails, [count |-> 0, reason |-> "none"])
    /\ UNCHANGED dlq
    /\ UNCHANGED outsideJobs

\* the worker of the job's queue reserves it
Reserve(n) ==
    /\ jobs[n].state = "waiting"
    /\ jobs' = [jobs EXCEPT ![n].state = "active"]
    /\ UNCHANGED <<dlq, fails>>
    /\ UNCHANGED outsideJobs

\* what the job store does when the processor of job n returns
Completes(n) ==
    /\ jobs' = [jobs EXCEPT ![n].state = "completed"]
    /\ UNCHANGED <<dlq, fails>>

\* the processor returns: the job is completed
ProcessorCompletes(n) ==
    /\ jobs[n].state = "active"
    /\ Completes(n)
    /\ UNCHANGED outsideJobs

\* worker.on('failed', ...): the listener the worker calls with the failed job and
\* the error, with moveToDeadLetterQueue; the dead-letter queue after it
FailedHandler(job, error) ==
    IF ShouldDeadLetter(job)
    THEN dlq (+) SetToBag({DLQJob(job, job.queue, error.message)})
    ELSE dlq

\* what the job store and the worker do when the processor of job n throws: the
\* wrapper rethrows, the job store counts the attempt, and the worker emits 'failed'
\* with the job as it now stands
Throws(n, err) ==
    /\ LET moved == MoveToFailed(jobs[n])
       IN /\ jobs' = [jobs EXCEPT ![n] = moved]
          /\ dlq' = FailedHandler(moved, [message |-> err])
    /\ fails' = [fails EXCEPT ![n] = [count |-> @.count + 1, reason |-> err]]

\* the processor throws
ProcessorFails(n, err) ==
    /\ jobs[n].state = "active"
    /\ Throws(n, err)
    /\ UNCHANGED outsideJobs

JobsNext ==
    \/ \E q \in WorkQueues, data \in Payloads : AddJob(q, data)
    \/ \E n \in DOMAIN jobs : Reserve(n)
    \/ \E n \in DOMAIN jobs : ProcessorCompletes(n)
    \/ \E n \in DOMAIN jobs, err \in Errors : ProcessorFails(n, err)

(***************************************************************************)
(*        NORMALIZE WORKER, UPSERT HELPER, DEDUP SERVICE, COLLABORATOR     *)
(*   src/src/workers/normalize.worker.ts, src/src/cms/upsert.ts,           *)
(*   src/unnamed/part_009 (dedup.service)                                  *)
(***************************************************************************)

Keys == {"k1", "k2"}                     \* idempotency keys
ContentTypes == {"ARTICLE", "TWEET", "COMMENT", "VIDEO", "PODCAST"}
Decisions == {"auto_approved", "needs_review", "auto_rejected"}

MaxItems == 2           \* raw items taken up in all
MaxBatch == 1           \* raw items in one normalize job
MaxOutageBatch == 2     \* raw items in one normalize job, where one worker runs alone
MaxExpiries == 1        \* Redis keys whose TTL runs out

NormWorkers == {"w1", "w2"}     \* normalize jobs in execution at once

SOURCE_CACHE_PREFIX == "source:"
DEDUP_PREFIX == "dedup:"
CONTENT_ID_PREFIX == "content:"
RedisKeys == {SOURCE_CACHE_PREFIX, DEDUP_PREFIX, CONTENT_ID_PREFIX} \X Keys

\* redis.get of a key that is not there; content item ids are 1, 2, ...
NoId == 0

\* What job.data says of the source of a normalize job: its type, whether its
\* settings make it a trusted source, and whether they hold filters.  The jobs are
\* of manual uploads (items of every content type) under moderation rules and
\* filters, or of a trusted YOUTUBE source without filters.  batch: the job holds at
\* most that many raw items (rawItems.length).
JobDataOf(most) ==
    {[sourceType |-> "MANUAL", trusted_source |-> FALSE, filters |-> TRUE, batch |-> most],
     [sourceType |-> "YOUTUBE", trusted_source |-> TRUE, filters |-> FALSE, batch |-> most]}
JobData == JobDataOf(MaxBatch)

\* a job of a trusted YOUTUBE source without filters
Plain(data) ==
    data.sourceType = "YOUTUBE" /\ data.trusted_source /\ ~data.filters

\* The raw items of a batch, by what the worker reads of them: whether a normalizer
\* maps the item, the key / type it maps to, what the source filters and the
\* moderation rules say of it, metadata.mediaReady, and whether it has a mediaUrl.
\* Of an item that is not mapped or is filtered nothing further is read, and the
\* media fields are read of VIDEO and PODCAST only.
RawItems ==
    { r \in [idempotencyKey : Keys, contentType : ContentTypes, mappable : BOOLEAN,
             skip : BOOLEAN, decision : Decisions,
             mediaReady : BOOLEAN, mediaUrl : BOOLEAN] :
        /\ ~r.mappable => ~r.skip
        /\ (~r.mappable \/ r.skip) =>
               r.decision = "auto_approved" /\ ~r.mediaReady /\ ~r.mediaUrl
        /\ r.contentType \notin {"VIDEO", "PODCAST"} => ~r.mediaReady /\ ~r.mediaUrl }

\* the content type the normalizer registered for the source type gives an item
NormalizerType(sourceType, r) ==
    CASE sourceType = "RSS" -> "ARTICLE"
      [] sourceType = "YOUTUBE" -> "VIDEO"
      [] sourceType = "PODCAST" -> "PODCAST"
      [] sourceType = "TWITTER" -> "TWEET"
      [] sourceType = "REDDIT" -> "COMMENT"
      [] OTHER -> r.contentType

\* The raw items a job can hold: metadata.contentType and metadata.mediaReady are
\* those of manual uploads, a media URL comes with uploads and podcast enclosures,
\* a trusted source is approved, and nothing is filtered without filters.
HoldsItem(data, r) ==
    /\ r.contentType = NormalizerType(data.sourceType, r)
    /\ data.sourceType \notin {"UPLOAD", "MANUAL"} => ~r.mediaReady
    /\ data.sourceType \notin {"UPLOAD", "MANUAL", "PODCAST"} => ~r.mediaUrl
    /\ data.trusted_source => r.decision = "auto_approved"
    /\ ~data.filters => ~r.skip

\* normalizeItem on an item a normalizer maps: the status the normalizers give
NormalizeItem(sourceType, r) ==
    [idempotencyKey |-> r.idempotencyKey,
     type |-> NormalizerType(sourceType, r),
     status |-> IF NormalizerType(sourceType, r) \in {"ARTICLE", "TWEET", "COMMENT"}
                THEN "READY"
                ELSE IF r.mediaReady THEN "PROCESSING" ELSE "PENDING",
     mediaReady |-> r.mediaReady,
     mediaUrl |-> r.mediaUrl,
     moderation |-> "none"]

\* the item after the moderation decision: metadata.moderation.decision, and the status
Moderated(normalized, decision) ==
    LET recorded == [normalized EXCEPT !.moderation = decision]
    IN IF decision = "auto_rejected" THEN [recorded EXCEPT !.status = "ARCHIVED"]
       ELSE IF decision = "needs_review" THEN [recorded EXCEPT !.status = "PENDING"]
       ELSE recorded

\* which moderation counter the decision increments
ModerationCounter(decision) ==
    IF decision = "auto_rejected" THEN "moderationRejected"
    ELSE IF decision = "needs_review" THEN "moderationReview"
    ELSE "moderationApproved"

\* the guard of the fan-out: ignoring the status / testing it
WantsMediaAnyStatus(normalized) ==
    normalized.type = "VIDEO" \/ normalized.type = "PODCAST"
WantsMedia(normalized) ==
    (normalized.type = "VIDEO" \/ normalized.type = "PODCAST")
        /\ normalized.status # "ARCHIVED"

\* which queue the fan-out adds to
FanOutQueue(normalized) ==
    IF normalized.mediaReady /\ normalized.mediaUrl THEN "ai" ELSE "media"

\* checkDedup: never a duplicate / a duplicate when the dedup key holds an id
IsDuplicateNever(r, key) == FALSE
IsDuplicate(r, key) == r[<<DEDUP_PREFIX, key>>] # NoId

\* the cache key of the upsert helper: one key for all items / one per idempotency key
CacheKeyShared(key) == <<SOURCE_CACHE_PREFIX, "k1">>
CacheKey(key) == <<SOURCE_CACHE_PREFIX, key>>

\* the collaborator's records for an idempotency key
CmsFor(key) == {c \in cms : c.idempotency_key = key}

\* POST /content-items at an idempotent collaborator: the record it answers with and
\* whether it created it
CreateOrGet(normalized) ==
    IF CmsFor(normalized.idempotencyKey) # {}
    THEN [item |-> CHOOSE c \in CmsFor(normalized.idempotencyKey) : TRUE,
          created |-> FALSE]
    ELSE [item |-> [idempotency_key |-> normalized.idempotencyKey,
                    id |-> Cardinality(cms) + 1],
          created |-> TRUE]

\* const created = response.created !== false: taking every answer for a creation /
\* taking the collaborator's word
WasCreatedAlways(answer) == TRUE
WasCreated(answer) == answer.created

CmsOutcomes == {"open", "ok", "error", "lost", "conflict"}

NoItem ==
    [idempotencyKey |-> "none", type |-> "none", status |-> "none",
     mediaReady |-> FALSE, mediaUrl |-> FALSE, moderation |-> "none"]
NoJobData == [sourceType |-> "none", trusted_source |-> FALSE, filters |-> FALSE, batch |-> 0]

Counters ==
    {"processed", "duplicates", "filtered", "failed", "moderationApproved",
     "moderationReview", "moderationRejected", "mediaEnqueued", "aiEnqueued"}

Zero == [n \in Counters |-> 0]
Incr(c, names) == [n \in Counters |-> IF n \in names THEN c[n] + 1 ELSE c[n]]

\* a worker slot without a job; caught: the errors the catch block of the item loop
\* has caught in this job, each with the number of the item that raised it
Free ==
    [pc |-> "free", data |-> NoJobData, taken |-> 0, item |-> NoItem,
     contentItemId |-> NoId, created |-> FALSE, counts |-> Zero,
     caught |-> {}]

\* the processor at the head of its item loop, the item of the last turn dropped
NextTurn(p, counter) ==
    [p EXCEPT !.pc = "loop", !.item = NoItem, !.contentItemId = NoId,
              !.created = FALSE, !.counts = Incr(@, {counter})]

\* the catch block of the item loop: rethrowing / failed++ and on to the next item
ItemFailedRethrows(p, error) ==
    [p EXCEPT !.pc = "thrown", !.caught = @ \cup {<<p.taken, error>>}]
ItemFailed(p, error) ==
    [NextTurn(p, "failed") EXCEPT !.caught = @ \cup {<<p.taken, error>>}]

NormalizeInit ==
    /\ redis = [k \in RedisKeys |-> NoId]
    /\ cms = {}
    /\ norm = [w \in NormWorkers |-> Free]
    /\ started = 0
    /\ expired = 0
    /\ enqueued = EmptyBag
    /\ returned = {}

\* A worker slot takes up a normalize job: the processor's counters at zero.  Jobs
\* overlap in execution only when they are of trusted YOUTUBE sources without
\* filters; the slots being alike, a job that runs alone runs in the first.
StartJob(w, data) ==
    /\ norm[w].pc = "free"
    /\ ~Plain(data) => w = "w1"
    /\ \A v \in NormWorkers \ {w} :
           norm[v].pc # "free" => Plain(data) /\ Plain(norm[v].data)
    /\ norm' = [norm EXCEPT ![w] = [Free EXCEPT !.pc = "loop", !.data = data]]
    /\ UNCHANGED <<redis, cms, started, expired, enqueued, returned>>
    /\ UNCHANGED outsideNormalize

\* the item loop takes the next raw item: normalizeItem, shouldSkipByFilters and
\* evaluateModerationDecision, up to the await of the dedup check
TakeItem(w, r) ==
    /\ norm[w].pc = "loop"
    /\ norm[w].taken < norm[w].data.batch
    /\ started < MaxItems
    /\ HoldsItem(norm[w].data, r)
    /\ started' = started + 1
    /\ LET p == [norm[w] EXCEPT !.taken = @ + 1]
       IN IF ~r.mappable
          THEN norm' = [norm EXCEPT ![w] = NextTurn(p, "failed")]
          ELSE IF r.skip
          THEN norm' = [norm EXCEPT ![w] = NextTurn(p, "filtered")]
          ELSE norm' = [norm EXCEPT ![w] =
                           [p EXCEPT !.pc = "checkDedup",
                                     !.item = Moderated(NormalizeItem(p.data.sourceType, r),
                                                        r.decision),
                                     !.counts = Incr(@, {ModerationCounter(r.decision)})]]
    /\ UNCHANGED <<redis, cms, expired, enqueued, returned>>
    /\ UNCHANGED outsideNormalize

\* dedupService.checkDedup settles: redis.get answers, or it rejects
CheckDedup(w, ok) ==
    /\ norm[w].pc = "checkDedup"
    /\ norm' = IF ~ok
               THEN [norm EXCEPT ![w] = ItemFailed(@, "checkDedup")]
               ELSE IF IsDuplicate(redis, norm[w].item.idempotencyKey)
               THEN [norm EXCEPT ![w] = NextTurn(@, "duplicates")]
               ELSE [norm EXCEPT ![w].pc = "cacheGet"]
    /\ UNCHANGED <<redis, cms, started, expired, enqueued, returned>>
    /\ UNCHANGED outsideNormalize

\* upsertContentItem: redis.get(cacheKey) answers
CacheGet(w) ==
    /\ norm[w].pc = "cacheGet"
    /\ LET key == norm[w].item.idempotencyKey
           cachedId == redis[CacheKey(key)]
       IN IF cachedId # NoId
          THEN /\ returned' = returned \cup {<<key, cachedId>>}
               /\ norm' = [norm EXCEPT ![w] = NextTurn(@, "duplicates")]
          ELSE /\ norm' = [norm EXCEPT ![w].pc = "post"]
               /\ UNCHANGED returned
    /\ UNCHANGED <<redis, cms, started, expired, enqueued>>
    /\ UNCHANGED outsideNormalize

\* upsertContentItem: cmsClient.createContentItem settles, a request made through
\* cmsCircuitBreaker.execute.  "open": execute throws CircuitOpenError without making
\* the request; "ok": the collaborator's answer arrives; "error": the request fails
\* with nothing created (5xx, network); "lost": the collaborator handled the request
\* and the answer did not arrive; "conflict": it answers 409 for a key it holds, and
\* the helper looks the id up under content:<key>.  Every answer but "ok" rejects
\* inside execute and is a failure to the breaker.
CreateContentItem(w, outcome) ==
    /\ norm[w].pc = "post"
    /\ LET item == norm[w].item
           key == item.idempotencyKey
           answer == CreateOrGet(item)
           existingId == redis[<<CONTENT_ID_PREFIX, key>>]
           entry == ExecuteEntry(breaker, now)
       IN CASE outcome = "open" ->
                 /\ entry.thrown
                 /\ norm' = [norm EXCEPT ![w] = ItemFailed(@, "CircuitOpenError")]
                 /\ UNCHANGED <<breaker, cms, returned>>
            [] outcome = "ok" ->
                 /\ ~entry.thrown
                 /\ breaker' = OnSuccess(entry.b)
                 /\ cms' = cms \cup {answer.item}
                 /\ norm' = [norm EXCEPT ![w].pc = "cacheSet",
                                         ![w].contentItemId = answer.item.id,
                                         ![w].created = WasCreated(answer)]
                 /\ UNCHANGED returned
            [] outcome = "error" ->
                 /\ ~entry.thrown
                 /\ breaker' = OnFailure(entry.b, now)
                 /\ norm' = [norm EXCEPT ![w] = ItemFailed(@, "createContentItem")]
                 /\ UNCHANGED <<cms, returned>>
            [] outcome = "lost" ->
                 /\ ~entry.thrown
                 /\ breaker' = OnFailure(entry.b, now)
                 /\ cms' = cms \cup {answer.item}
                 /\ norm' = [norm EXCEPT ![w] = ItemFailed(@, "createContentItem")]
                 /\ UNCHANGED returned
            [] outcome = "conflict" ->
                 /\ ~entry.thrown
                 /\ breaker' = OnFailure(entry.b, now)
                 /\ CmsFor(key) # {}
                 /\ IF existingId # NoId
                    THEN /\ returned' = returned \cup {<<key, existingId>>}
                         /\ norm' = [norm EXCEPT ![w] = NextTurn(@, "duplicates")]
                    ELSE /\ norm' = [norm EXCEPT ![w] = ItemFailed(@, "createContentItem")]
                         /\ UNCHANGED returned
                 /\ UNCHANGED cms
    /\ calls' = Outlive(calls, breaker, breaker')
    /\ UNCHANGED <<redis, started, expired, enqueued>>
    /\ UNCHANGED <<now, last, streak, probed>>
    /\ UNCHANGED outsideCms

\* upsertContentItem: redis.setex(cacheKey, SOURCE_CACHE_TTL, contentItemId)
CacheSet(w) ==
    /\ norm[w].pc = "cacheSet"
    /\ redis' = [redis EXCEPT ![CacheKey(norm[w].item.idempotencyKey)] =
                                  norm[w].contentItemId]
    /\ norm' = [norm EXCEPT ![w].pc = "markDedup"]
    /\ UNCHANGED <<cms, started, expired, enqueued, returned>>
    /\ UNCHANGED outsideNormalize

\* markProcessed: redis.setex(dedup:<key>, ttl, contentItemId)
MarkDedup(w) ==
    /\ norm[w].pc = "markDedup"
    /\ redis' = [redis EXCEPT ![<<DEDUP_PREFIX, norm[w].item.idempotencyKey>>] =
                                  norm[w].contentItemId]
    /\ norm' = [norm EXCEPT ![w].pc = "markContent"]
    /\ UNCHANGED <<cms, started, expired, enqueued, returned>>
    /\ UNCHANGED outsideNormalize

\* markProcessed: redis.setex(content:<key>, ttl, contentItemId); upsertContentItem
\* returns { contentItemId, created } and the worker goes on to its next await
MarkContent(w) ==
    /\ norm[w].pc = "markContent"
    /\ LET item == norm[w].item
           key == item.idempotencyKey
       IN /\ redis' = [redis EXCEPT ![<<CONTENT_ID_PREFIX, key>>] = norm[w].contentItemId]
          /\ returned' = returned \cup {<<key, norm[w].contentItemId>>}
          /\ norm' = IF norm[w].created
                     THEN IF WantsMedia(item)
                          THEN [norm EXCEPT ![w].pc = "enqueue",
                                            ![w].counts = Incr(@, {"processed"})]
                          ELSE [norm EXCEPT ![w] = NextTurn(@, "processed")]
                     ELSE [norm EXCEPT ![w] = NextTurn(@, "duplicates")]
    /\ UNCHANGED <<cms, started, expired, enqueued>>
    /\ UNCHANGED outsideNormalize

\* the job the fan-out adds
FanOutJob(p) ==
    [queue |-> FanOutQueue(p.item),
     contentItemId |-> p.contentItemId,
     contentType |-> p.item.type]

\* aiQueue.add / mediaQueue.add settles: the job is added, or the add throws
Enqueue(w, added) ==
    /\ norm[w].pc = "enqueue"
    /\ IF added
       THEN /\ enqueued' = enqueued (+) SetToBag({FanOutJob(norm[w])})
            /\ norm' = [norm EXCEPT ![w] =
                           NextTurn(@, IF FanOutQueue(norm[w].item) = "ai"
                                       THEN "aiEnqueued" ELSE "mediaEnqueued")]
       ELSE /\ norm' = [norm EXCEPT ![w] = ItemFailed(@, "add")]
            /\ UNCHANGED enqueued
    /\ UNCHANGED <<redis, cms, started, expired, returned>>
    /\ UNCHANGED outsideNormalize

\* the item loop is through the batch: the processor logs its counters and returns
FinishJob(w) ==
    /\ norm[w].pc = "loop"
    /\ norm' = [norm EXCEPT ![w] = Free]
    /\ UNCHANGED <<redis, cms, started, expired, enqueued, returned>>
    /\ UNCHANGED outsideNormalize

\* the TTL of a Redis key runs out
Expire(k) ==
    /\ redis[k] # NoId
    /\ expired < MaxExpiries
    /\ expired' = expired + 1
    /\ redis' = [redis EXCEPT ![k] = NoId]
    /\ UNCHANGED <<cms, norm, started, enqueued, returned>>
    /\ UNCHANGED outsideNormalize

\* Normalize jobs of a trusted source while the stores are out of order: another
\* caller's requests to the collaborator fail (the breaker's execute and onFailure),
\* the dedup store rejects reads; one normalize worker
OutageNext ==
    \/ Execute(1)
    \/ Fail(1)
    \/ \E data \in JobDataOf(MaxOutageBatch) : Plain(data) /\ StartJob("w1", data)
    \/ \E r \in RawItems : TakeItem("w1", r)
    \/ \E ok \in BOOLEAN : CheckDedup("w1", ok)
    \/ CacheGet("w1")
    \/ \E outcome \in CmsOutcomes : CreateContentItem("w1", outcome)
    \/ CacheSet("w1")
    \/ MarkDedup("w1")
    \/ MarkContent("w1")
    \/ \E added \in BOOLEAN : Enqueue("w1", added)
    \/ FinishJob("w1")

\* Normalize jobs while the dedup store answers every read
NormalizeNext ==
    \/ \E w \in NormWorkers, data \in JobData : StartJob(w, data)
    \/ \E w \in NormWorkers, r \in RawItems : TakeItem(w, r)
    \/ \E w \in NormWorkers : CheckDedup(w, TRUE)
    \/ \E w \in NormWorkers : CacheGet(w)
    \/ \E w \in NormWorkers, outcome \in CmsOutcomes : CreateContentItem(w, outcome)
    \/ \E w \in NormWorkers : CacheSet(w)
    \/ \E w \in NormWorkers : MarkDedup(w)
    \/ \E w \in NormWorkers : MarkContent(w)
    \/ \E w \in NormWorkers, added \in BOOLEAN : Enqueue(w, added)
    \/ \E w \in NormWorkers : FinishJob(w)
    \/ \E k \in RedisKeys : Expire(k)

(***************************************************************************)
(*                      MEDIA WORKER AND AI WORKER                         *)
(*   src/src/workers/media.worker.ts, src/src/workers/ai.worker.ts         *)
(***************************************************************************)

Contents == {"c1"}              \* content item ids

\* the statuses after which a stage attempt is over
Terminal == {"READY", "FAILED", "ARCHIVED"}

MediaInit ==
    /\ content = [c \in Contents |->
                      [status |-> "none", media_url |-> FALSE, embedding |-> FALSE]]
    /\ objects = {}
    /\ temp = {}
    /\ exec = <<>>

\* the processor of job n starts at step pc, with no temp files and nothing thrown
Entered(n, pc) ==
    [m \in DOMAIN exec \cup {n} |->
        IF m = n THEN [pc |-> pc, tempFiles |-> {}, error |-> "none", transcript |-> FALSE,
                       swallowed |-> {}, created |-> {}]
        ELSE exec[m]]

\* the processor of job n goes on to step pc / to its catch block with the error;
\* swallowed: the best-effort steps of this execution whose error an inner catch logged;
\* created: the files this execution has written in the temp directory
Goes(n, pc) == [exec EXCEPT ![n].pc = pc]
Caught(n, error) == [exec EXCEPT ![n].pc = "catch", ![n].error = error]

\* the inner catch of a best-effort step of the AI worker: rethrowing / logging the
\* error and going on to step pc
BestEffortThrows(n, step, pc) ==
    [exec EXCEPT ![n].pc = "catch", ![n].error = step, ![n].swallowed = @ \cup {step}]
BestEffort(n, step, pc) ==
    [exec EXCEPT ![n].pc = pc, ![n].swallowed = @ \cup {step}]

\* queue.add of a job for a stage
AddStageJob(q, data) ==
    /\ jobs' = Append(jobs, QueueAdd(q, data, attempts))
    /\ fails' = Append(fails, [count |-> 0, reason |-> "none"])
    /\ UNCHANGED dlq

\* normalize has created a VIDEO / PODCAST item and fans out: a media job for an
\* item created PENDING, or an AI job at once for one created with media ready; the
\* AI job is added with a mediaUrl field and no mediaPath field
FanOut(c, direct) ==
    /\ content[c].status = "none"
    /\ content' = [content EXCEPT ![c] =
                      [status |-> IF direct THEN "PROCESSING" ELSE "PENDING",
                       media_url |-> direct, embedding |-> FALSE]]
    /\ AddStageJob(IF direct THEN "ai" ELSE "media",
                   [name |-> IF direct THEN "ai-manual" ELSE "media",
                    contentItemId |-> c,
                    mediaUrl |-> direct,
                    mediaPath |-> "none"])
    /\ UNCHANGED <<objects, temp, exec>>
    /\ UNCHANGED outsideMedia

\* ---- media worker ----

\* the media worker reserves a waiting job: the processor starts
MediaReserve(n) ==
    /\ jobs[n].queue = "media" /\ jobs[n].state = "waiting"
    /\ jobs' = [jobs EXCEPT ![n].state = "active"]
    /\ exec' = Entered(n, "setProcessing")
    /\ UNCHANGED <<dlq, fails, content, objects, temp>>
    /\ UNCHANGED outsideMedia

\* 1. cmsClient.updateStatus(PROCESSING) settles
MediaSetProcessing(n, ok) ==
    /\ jobs[n].queue = "media" /\ jobs[n].state = "active"
    /\ exec[n].pc = "setProcessing"
    /\ IF ok
       THEN /\ content' = [content EXCEPT ![jobs[n].data.contentItemId].status = "PROCESSING"]
            /\ exec' = Goes(n, "objectExists")
       ELSE /\ exec' = Caught(n, "updateStatus")
            /\ UNCHANGED content
    /\ UNCHANGED <<jobs, dlq, fails, objects, temp>>
    /\ UNCHANGED outsideMedia

\* 2. objectExists(processedKey) answers
MediaObjectExistsIgnored(n) ==
    /\ jobs[n].queue = "media" /\ jobs[n].state = "active"
    /\ exec[n].pc = "objectExists"
    /\ exec' = Goes(n, "download")
    /\ UNCHANGED <<jobs, dlq, fails, content, objects, temp>>
    /\ UNCHANGED outsideMedia
MediaObjectExists(n) ==
    /\ jobs[n].queue = "media" /\ jobs[n].state = "active"
    /\ exec[n].pc = "objectExists"
    /\ exec' = IF jobs[n].data.contentItemId \in objects
               THEN Goes(n, "enqueueProcessedKey")
               ELSE Goes(n, "download")
    /\ UNCHANGED <<jobs, dlq, fails, content, objects, temp>>
    /\ UNCHANGED outsideMedia

\* the files a download leaves in the temp directory: downloadHttp writes <id>.<ext>,
\* yt-dlp writes <id>.<ext> and, with --write-info-json, <id>.info.json; a download
\* that fails has written <id>.<ext> in part, or nothing
Downloaded(c, youtube) ==
    IF youtube THEN {<<c, "download">>, <<c, "info">>} ELSE {<<c, "download">>}
PartWay(c, step) == {{}, {<<c, step>>}}

\* 3./4. the download (and getMediaInfo) settles: tempFiles.push(downloadResult.filePath)
\* runs when the download has returned
MediaDownload(n, ok) ==
    /\ jobs[n].queue = "media" /\ jobs[n].state = "active"
    /\ exec[n].pc = "download"
    /\ LET c == jobs[n].data.contentItemId
       IN IF ok
          THEN \E youtube \in BOOLEAN :
                   /\ temp' = temp \cup Downloaded(c, youtube)
                   /\ exec' = [exec EXCEPT ![n].pc = "transcode",
                                           ![n].tempFiles = @ \cup {<<c, "download">>},
                                           ![n].created = @ \cup Downloaded(c, youtube)]
          ELSE \E written \in PartWay(c, "download") :
                   /\ temp' = temp \cup written
                   /\ exec' = [Caught(n, "download") EXCEPT ![n].created = @ \cup written]
    /\ UNCHANGED <<jobs, dlq, fails, content, objects>>
    /\ UNCHANGED outsideMedia

\* 5./6. the transcode to <id>_processed.mp4 settles (the thumbnail is best effort)
MediaTranscode(n, ok) ==
    /\ jobs[n].queue = "media" /\ jobs[n].state = "active"
    /\ exec[n].pc = "transcode"
    /\ LET c == jobs[n].data.contentItemId
       IN IF ok
          THEN /\ temp' = temp \cup {<<c, "processed">>}
               /\ exec' = [exec EXCEPT ![n].pc = "upload",
                                       ![n].tempFiles = @ \cup {<<c, "processed">>},
                                       ![n].created = @ \cup {<<c, "processed">>}]
          ELSE \E written \in PartWay(c, "processed") :
                   /\ temp' = temp \cup written
                   /\ exec' = [Caught(n, "transcode") EXCEPT ![n].created = @ \cup written]
    /\ UNCHANGED <<jobs, dlq, fails, content, objects>>
    /\ UNCHANGED outsideMedia

\* 7. uploadFile(processedKey, ...) settles
MediaUpload(n, ok) ==
    /\ jobs[n].queue = "media" /\ jobs[n].state = "active"
    /\ exec[n].pc = "upload"
    /\ IF ok
       THEN /\ objects' = objects \cup {jobs[n].data.contentItemId}
            /\ exec' = Goes(n, "updateArtifacts")
       ELSE /\ exec' = Caught(n, "upload")
            /\ UNCHANGED objects
    /\ UNCHANGED <<jobs, dlq, fails, content, temp>>
    /\ UNCHANGED outsideMedia

\* 8. cmsClient.updateArtifacts(media_url, ...) settles
MediaUpdateArtifacts(n, ok) ==
    /\ jobs[n].queue = "media" /\ jobs[n].state = "active"
    /\ exec[n].pc = "updateArtifacts"
    /\ IF ok
       THEN /\ content' = [content EXCEPT ![jobs[n].data.contentItemId].media_url = TRUE]
            /\ exec' = Goes(n, "enqueueProcessedPath")
       ELSE /\ exec' = Caught(n, "updateArtifacts")
            /\ UNCHANGED content
    /\ UNCHANGED <<jobs, dlq, fails, objects, temp>>
    /\ UNCHANGED outsideMedia

\* enqueueAIJob settles, with the processed key (already processed) or with the path
\* of the processed temp file (9.); after it the try block is through
MediaEnqueueAI(n, ok) ==
    /\ jobs[n].queue = "media" /\ jobs[n].state = "active"
    /\ exec[n].pc \in {"enqueueProcessedKey", "enqueueProcessedPath"}
    /\ IF ok
       THEN /\ AddStageJob("ai",
                   [name |-> "ai",
                    contentItemId |-> jobs[n].data.contentItemId,
                    mediaUrl |-> FALSE,
                    mediaPath |-> IF exec[n].pc = "enqueueProcessedKey"
                                  THEN "processedKey" ELSE "processedPath"])
            /\ exec' = Goes(n, "finally")
       ELSE /\ exec' = Caught(n, "enqueueAIJob")
            /\ UNCHANGED <<jobs, dlq, fails>>
    /\ UNCHANGED <<content, objects, temp>>
    /\ UNCHANGED outsideMedia

\* catch: cmsClient.updateStatus(FAILED) settles, its own failure swallowed
MediaCatch(n, ok) ==
    /\ jobs[n].queue = "media" /\ jobs[n].state = "active"
    /\ exec[n].pc = "catch"
    /\ content' = IF ok
                  THEN [content EXCEPT ![jobs[n].data.contentItemId].status = "FAILED"]
                  ELSE content
    /\ exec' = Goes(n, "finally")
    /\ UNCHANGED <<jobs, dlq, fails, objects, temp>>
    /\ UNCHANGED outsideMedia

\* finally: the temp files of this execution are removed, and the processor returns
\* or rethrows
MediaFinally(n) ==
    /\ jobs[n].queue = "media" /\ jobs[n].state = "active"
    /\ exec[n].pc = "finally"
    /\ temp' = temp \ exec[n].tempFiles
    /\ exec' = [exec EXCEPT ![n].pc = "done", ![n].tempFiles = {}]
    /\ IF exec[n].error = "none" THEN Completes(n) ELSE Throws(n, exec[n].error)
    /\ UNCHANGED <<content, objects>>
    /\ UNCHANGED outsideMedia

\* ---- AI worker ----

\* the AI worker reserves a waiting job: the processor starts
AiReserve(n) ==
    /\ jobs[n].queue = "ai" /\ jobs[n].state = "waiting"
    /\ jobs' = [jobs EXCEPT ![n].state = "active"]
    /\ exec' = Entered(n, "transcript")
    /\ UNCHANGED <<dlq, fails, content, objects, temp>>
    /\ UNCHANGED outsideMedia

\* 1. the transcript, best effort: skipped without a media path; with one the audio is
\* extracted to <id>_audio.mp3, which works when the path names a file that is there,
\* and then transcribe, createTranscript and linkTranscript settle
AiTranscript(n, ok) ==
    /\ jobs[n].queue = "ai" /\ jobs[n].state = "active"
    /\ exec[n].pc = "transcript"
    /\ LET c == jobs[n].data.contentItemId
           readable == jobs[n].data.mediaPath = "processedPath" /\ <<c, "processed">> \in temp
       IN IF jobs[n].data.mediaPath = "none"
          THEN /\ ok
               /\ exec' = Goes(n, "embedding")
               /\ UNCHANGED temp
          ELSE IF ~readable
          THEN /\ ~ok
               /\ exec' = BestEffort(n, "extractAudio", "embedding")
               /\ UNCHANGED temp
          ELSE /\ temp' = temp \cup {<<c, "audio">>}
               /\ exec' = IF ok
                          THEN [exec EXCEPT ![n].pc = "embedding",
                                            ![n].tempFiles = @ \cup {<<c, "audio">>},
                                            ![n].created = @ \cup {<<c, "audio">>},
                                            ![n].transcript = TRUE]
                          ELSE [BestEffort(n, "transcript", "embedding") EXCEPT
                                            ![n].tempFiles = @ \cup {<<c, "audio">>},
                                            ![n].created = @ \cup {<<c, "audio">>}]
    /\ UNCHANGED <<jobs, dlq, fails, content, objects>>
    /\ UNCHANGED outsideMedia

\* 2. the embedding, best effort: generateEmbedding and cmsClient.updateEmbedding settle
AiEmbedding(n, outcome) ==
    /\ jobs[n].queue = "ai" /\ jobs[n].state = "active"
    /\ exec[n].pc = "embedding"
    /\ IF outcome = "stored"
       THEN /\ content' = [content EXCEPT ![jobs[n].data.contentItemId].embedding = TRUE]
            /\ exec' = Goes(n, "setReady")
       ELSE /\ exec' = BestEffort(n, outcome, "setReady")
            /\ UNCHANGED content
    /\ UNCHANGED <<jobs, dlq, fails, objects, temp>>
    /\ UNCHANGED outsideMedia

\* 3. cmsClient.updateStatus(READY) settles
AiSetReady(n, ok) ==
    /\ jobs[n].queue = "ai" /\ jobs[n].state = "active"
    /\ exec[n].pc = "setReady"
    /\ IF ok
       THEN /\ content' = [content EXCEPT ![jobs[n].data.contentItemId].status = "READY"]
            /\ exec' = Goes(n, "finally")
       ELSE /\ exec' = Caught(n, "updateStatus")
            /\ UNCHANGED content
    /\ UNCHANGED <<jobs, dlq, fails, objects, temp>>
    /\ UNCHANGED outsideMedia

\* catch: cmsClient.updateStatus(FAILED) settles, its own failure swallowed
AiCatch(n, ok) ==
    /\ jobs[n].queue = "ai" /\ jobs[n].state = "active"
    /\ exec[n].pc = "catch"
    /\ content' = IF ok
                  THEN [content EXCEPT ![jobs[n].data.contentItemId].status = "FAILED"]
                  ELSE content
    /\ exec' = Goes(n, "finally")
    /\ UNCHANGED <<jobs, dlq, fails, objects, temp>>
    /\ UNCHANGED outsideMedia

\* finally: the temp files of this execution are removed, and the processor returns
\* or rethrows
AiFinally(n) ==
    /\ jobs[n].queue = "ai" /\ jobs[n].state = "active"
    /\ exec[n].pc = "finally"
    /\ temp' = temp \ exec[n].tempFiles
    /\ exec' = [exec EXCEPT ![n].pc = "done", ![n].tempFiles = {}]
    /\ IF exec[n].error = "none" THEN Completes(n) ELSE Throws(n, exec[n].error)
    /\ UNCHANGED <<content, objects>>
    /\ UNCHANGED outsideMedia

MediaNext ==
    \/ \E c \in Contents, direct \in BOOLEAN : FanOut(c, direct)
    \/ \E n \in DOMAIN jobs : MediaReserve(n)
    \/ \E n \in DOMAIN jobs, ok \in BOOLEAN : MediaSetProcessing(n, ok)
    \/ \E n \in DOMAIN jobs : MediaObjectExists(n)
    \/ \E n \in DOMAIN jobs, ok \in BOOLEAN : MediaDownload(n, ok)
    \/ \E n \in DOMAIN jobs, ok \in BOOLEAN : MediaTranscode(n, ok)
    \/ \E n \in DOMAIN jobs, ok \in BOOLEAN : MediaUpload(n, ok)
    \/ \E n \in DOMAIN jobs, ok \in BOOLEAN : MediaUpdateArtifacts(n, ok)
    \/ \E n \in DOMAIN jobs, ok \in BOOLEAN : MediaEnqueueAI(n, ok)
    \/ \E n \in DOMAIN jobs, ok \in BOOLEAN : MediaCatch(n, ok)
    \/ \E n \in DOMAIN jobs : MediaFinally(n)
    \/ \E n \in DOMAIN jobs : AiReserve(n)
    \/ \E n \in DOMAIN jobs, ok \in BOOLEAN : AiTranscript(n, ok)
    \/ \E n \in DOMAIN jobs, outcome \in {"stored", "generateEmbedding", "updateEmbedding"} :
           AiEmbedding(n, outcome)
    \/ \E n \in DOMAIN jobs, ok \in BOOLEAN : AiSetReady(n, ok)
    \/ \E n \in DOMAIN jobs, ok \in BOOLEAN : AiCatch(n, ok)
    \/ \E n \in DOMAIN jobs : AiFinally(n)

(***************************************************************************)
(*                            RATE LIMITER                                 *)
(***************************************************************************)

\* The RateLimitConfig of the source type in use, the window in clock ticks.
maxRequests == 2
windowMs == 3

\* Bounds of the rate limiter model.
MaxConsumes == 3        \* consumeRateLimit calls made in all
MaxBurstConsumes == 5   \* the same, where time passes between calls only
MaxClock == 4

\* `${RATE_LIMIT_PREFIX}${sourceType}:${sourceId || 'default'}`
RateKeys == {"ratelimit:RSS:s1"}
Callers == {"r1", "r2"}     \* consumeRateLimit calls in flight at once

NoResult == [allowed |-> FALSE, remaining |-> 0 - 1, resetMs |-> 0 - 1]
IdleCaller == [pc |-> "idle", key |-> "none", now |-> 0, n |-> 0, result |-> NoResult]

\* redis.zremrangebyscore(key, '-inf', windowStart): the members left
InWindowInclusive(zset, windowStart) == {h \in zset : h.score >= windowStart}
InWindow(zset, windowStart) == {h \in zset : h.score > windowStart}

\* currentCount >= config.maxRequests
LimitReachedStrict(currentCount) == currentCount > maxRequests
LimitReached(currentCount) == currentCount >= maxRequests

\* redis.zrange(key, 0, 0, 'WITHSCORES') and the resetMs computed from it
ResetMs(zset, t) ==
    IF zset = {} THEN windowMs
    ELSE LET oldest == CHOOSE h \in zset : \A g \in zset : h.score <= g.score
         IN oldest.score + windowMs - t

\* consumeRateLimit: record the request when the check allowed it, whatever it says
ShouldRecordAlways(result) == TRUE
ShouldRecord(result) == result.allowed

\* the callers with a consumeRateLimit in flight on the key
InFlight(k) == {q \in Callers : rate[q].pc # "idle" /\ rate[q].key = k}

RateInit ==
    /\ clock = 0
    /\ zsets = [k \in RateKeys |-> {}]
    /\ rate = [p \in Callers |-> IdleCaller]
    /\ consumed = <<>>

\* consumeRateLimit -> checkRateLimit, up to its first await: key, now = Date.now();
\* most: the calls made in all
Consume(p, k, most) ==
    /\ rate[p].pc = "idle"
    /\ Len(consumed) < most
    /\ rate' = [rate EXCEPT ![p] = [pc |-> "zremrangebyscore", key |-> k, now |-> clock,
                                    n |-> Len(consumed) + 1, result |-> NoResult]]
    /\ consumed' = Append([i \in DOMAIN consumed |->
                              IF consumed[i].key = k /\ ~consumed[i].done
                              THEN [consumed[i] EXCEPT !.overlap = TRUE]
                              ELSE consumed[i]],
                          [key |-> k, at |-> clock, overlap |-> InFlight(k) # {},
                           done |-> FALSE, ret |-> 0, result |-> NoResult])
    /\ UNCHANGED <<clock, zsets>>
    /\ UNCHANGED outsideRate

ConsumeRateLimit(p, k) == Consume(p, k, MaxConsumes)

\* await redis.zremrangebyscore(key, '-inf', windowStart)
Zremrangebyscore(p) ==
    /\ rate[p].pc = "zremrangebyscore"
    /\ zsets' = [zsets EXCEPT ![rate[p].key] = InWindow(@, rate[p].now - windowMs)]
    /\ rate' = [rate EXCEPT ![p].pc = "zcard"]
    /\ UNCHANGED <<clock, consumed>>
    /\ UNCHANGED outsideRate

\* await redis.zcard(key) and the comparison with maxRequests
Zcard(p) ==
    /\ rate[p].pc = "zcard"
    /\ LET currentCount == Cardinality(zsets[rate[p].key])
       IN rate' = [rate EXCEPT ![p] =
                      IF LimitReached(currentCount)
                      THEN [@ EXCEPT !.pc = "zrange"]
                      ELSE [@ EXCEPT !.pc = "returned",
                                     !.result = [allowed |-> TRUE,
                                                 remaining |-> maxRequests - currentCount - 1,
                                                 resetMs |-> windowMs]]]
    /\ UNCHANGED <<clock, zsets, consumed>>
    /\ UNCHANGED outsideRate

\* await redis.zrange(key, 0, 0, 'WITHSCORES'); checkRateLimit returns denied
Zrange(p) ==
    /\ rate[p].pc = "zrange"
    /\ rate' = [rate EXCEPT ![p].pc = "returned",
                            ![p].result = [allowed |-> FALSE, remaining |-> 0,
                                           resetMs |-> ResetMs(zsets[rate[p].key], rate[p].now)]]
    /\ UNCHANGED <<clock, zsets, consumed>>
    /\ UNCHANGED outsideRate

\* consumeRateLimit after checkRateLimit returned: recordRequest (now = Date.now(),
\* zadd, expire) if the result is allowed; the result is returned to the caller
RecordRequest(p) ==
    /\ rate[p].pc = "returned"
    /\ zsets' = [zsets EXCEPT ![rate[p].key] =
                    IF ShouldRecord(rate[p].result)
                    THEN @ \cup {[score |-> clock, member |-> rate[p].n]}
                    ELSE @]
    /\ consumed' = [consumed EXCEPT ![rate[p].n].done = TRUE,
                                    ![rate[p].n].ret = clock,
                                    ![rate[p].n].result = rate[p].result]
    /\ rate' = [rate EXCEPT ![p] = IdleCaller]
    /\ UNCHANGED clock
    /\ UNCHANGED outsideRate

\* getRateLimitStatus (admin inspection): trims the key as of now and counts
GetRateLimitStatus(k) ==
    /\ zsets' = [zsets EXCEPT ![k] = InWindow(@, clock - windowMs)]
    /\ UNCHANGED <<clock, rate, consumed>>
    /\ UNCHANGED outsideRate

\* the clock advances
RateTick ==
    /\ clock < MaxClock
    /\ clock' = clock + 1
    /\ UNCHANGED <<zsets, rate, consumed>>
    /\ UNCHANGED outsideRate

RateNext ==
    \/ \E p \in Callers, k \in RateKeys : ConsumeRateLimit(p, k)
    \/ \E p \in Callers : Zremrangebyscore(p)
    \/ \E p \in Callers : Zcard(p)
    \/ \E p \in Callers : Zrange(p)
    \/ \E p \in Callers : RecordRequest(p)
    \/ \E k \in RateKeys : GetRateLimitStatus(k)
    \/ RateTick

\* Bursts of calls: calls are short next to a clock tick, so they overlap within a
\* tick and time passes only between calls.
BurstNext ==
    \/ \E p \in Callers, k \in RateKeys : Consume(p, k, MaxBurstConsumes)
    \/ \E p \in Callers : Zremrangebyscore(p)
    \/ \E p \in Callers : Zcard(p)
    \/ \E p \in Callers : Zrange(p)
    \/ \E p \in Callers : RecordRequest(p)
    \/ (\A p \in Callers : rate[p].pc = "idle") /\ RateTick

(***************************************************************************)
(*                 DEDUP SERVICE: IDEMPOTENCY KEYS OF URLS                 *)
(***************************************************************************)

\* Bound of the key model: query parameters in a URL.
MaxQuery == 2

\* The strings a URL is made of here: host names in two spellings, paths over the
\* characters "/" and "a", query parameter names.
Hosts == {"ex.com", "EX.com"}
Paths == {<<>>, <<"/">>, <<"/", "a">>, <<"/", "a", "/">>, <<"/", "a", "/", "/">>}
ParamNames == {"utm_source", "utm_id", "ref", "id"}
Queries == UNION {[1..n -> ParamNames] : n \in 0..MaxQuery}

\* A string given as a URL, by its parts:  https://host[:port][path][?query][#fragment].
\* `serialized` says the text of the query is what URLSearchParams writes (no empty
\* pairs, form-urlencoded); `parses` is false for a string new URL() rejects
\* (relative, garbage); `sha` counts the sha256 digests taken of the string.
NotAUrl ==
    [parses |-> FALSE, sha |-> 0, host |-> "", port |-> FALSE, path |-> <<>>,
     query |-> <<>>, serialized |-> TRUE, fragment |-> FALSE]
UrlStrings ==
    [parses : {TRUE}, sha : {0}, host : Hosts, port : BOOLEAN, path : Paths,
     query : Queries, serialized : BOOLEAN, fragment : BOOLEAN] \cup {NotAUrl}

\* new URL(url) succeeds: a digest (hex digits, no scheme) is not a URL
Parses(url) == url.parses /\ url.sha = 0

\* parsed.hostname.toLowerCase()
ToLowerCase(host) == IF host = "EX.com" THEN "ex.com" ELSE host

\* parsed.pathname: the path of a URL without one is "/"
Pathname(url) == IF url.path = <<>> THEN <<"/">> ELSE url.path

\* .replace(/\/+$/, '')
RECURSIVE StripTrailingSlashes(_)
StripTrailingSlashes(path) ==
    IF path # <<>> /\ path[Len(path)] = "/"
    THEN StripTrailingSlashes(SubSeq(path, 1, Len(path) - 1))
    ELSE path

\* const trackingParams = [...]
trackingParams ==
    {"utm_source", "utm_medium", "utm_campaign", "utm_content", "utm_term", "ref", "source"}

\* trackingParams.forEach(param => parsed.searchParams.delete(param))
DeleteTracking(query) == SelectSeq(query, LAMBDA name : name \notin trackingParams)

\* function canonicalizeUrl(url)
canonicalizeUrl(url) ==
    IF Parses(url)
    THEN LET stripped == StripTrailingSlashes(Pathname(url))
         IN [parses |-> TRUE, sha |-> 0,
             host |-> ToLowerCase(url.host),
             port |-> FALSE,
             path |-> IF stripped = <<>> THEN <<"/">> ELSE stripped,
             query |-> DeleteTracking(url.query),
             serialized |-> TRUE,
             fragment |-> FALSE]
    ELSE [url EXCEPT !.sha = @ + 1]

\* the URL without its i-th query parameter
WithoutParam(url, i) ==
    [url EXCEPT !.query = SubSeq(@, 1, i - 1) \o SubSeq(@, i + 1, Len(@))]

KeysInit ==
    keyed = [stage |-> "none", url |-> NotAUrl, key |-> NotAUrl, removed |-> "none",
             other |-> NotAUrl, otherKey |-> NotAUrl]

\* generateIdempotencyKey(url) for an item with a url
GenerateIdempotencyKey(url) ==
    /\ keyed.stage = "none"
    /\ keyed' = [keyed EXCEPT !.stage = "keyed", !.url = url, !.key = canonicalizeUrl(url)]
    /\ UNCHANGED outsideKeys

\* generateIdempotencyKey(key): the key given as the url of an item
GenerateForKey ==
    /\ keyed.stage = "keyed"
    /\ keyed' = [keyed EXCEPT !.stage = "rekeyed", !.removed = "none",
                              !.other = keyed.key, !.otherKey = canonicalizeUrl(keyed.key)]
    /\ UNCHANGED outsideKeys

\* generateIdempotencyKey(url') for the same url without one of its query parameters
GenerateForVariant(i) ==
    /\ keyed.stage = "keyed"
    /\ Parses(keyed.url)
    /\ i \in DOMAIN keyed.url.query
    /\ LET variant == WithoutParam(keyed.url, i)
       IN keyed' = [keyed EXCEPT !.stage = "variant", !.removed = keyed.url.query[i],
                                 !.other = variant, !.otherKey = canonicalizeUrl(variant)]
    /\ UNCHANGED outsideKeys

KeysNext ==
    \/ \E url \in UrlStrings : GenerateIdempotencyKey(url)
    \/ GenerateForKey
    \/ \E i \in 1..MaxQuery : GenerateForVariant(i)

(***************************************************************************)
(*                             FETCH WORKER                                *)
(***************************************************************************)

\* Bounds of the fetch model.
MaxTriggers == 1        \* fetch jobs added by the scheduler or by hand
MaxCursor == 1          \* pages a source has after the first

\* config.settings of a source: its filter and moderation configuration, if any
NoSettings == [filters |-> "undefined", moderation |-> "undefined"]
Sources ==
    {[sourceId |-> "s1", sourceType |-> "RSS",
      settings |-> [filters |-> "f1", moderation |-> "m1"]],
     [sourceId |-> "s2", sourceType |-> "YOUTUBE", settings |-> NoSettings]}

\* FetchResult: the items of the page and whether a cursor to a next page came back
FetchResults == [items : {<<>>, <<"i1">>, <<"i1", "i2">>}, more : BOOLEAN]
NoFetchResult == [items |-> <<>>, more |-> FALSE]

\* what a fetcher returns when consumeRateLimit denied the call:
\* { items: [], hasMore: false, metadata: ... }, whatever the cursor
RateLimitedResultWithMore(cursor) == [items |-> <<>>, more |-> cursor < MaxCursor]
RateLimitedResult(cursor) == [items |-> <<>>, more |-> FALSE]

\* a job whose processor has not started: no adapter call made, no result
NotFetching ==
    [pc |-> "waiting", result |-> NoFetchResult, denied |-> FALSE, contacted |-> FALSE]

\* the FetchJob payload for a source, at a cursor
FetchJobData(src, cursor) ==
    [name |-> "fetch", sourceId |-> src.sourceId, sourceType |-> src.sourceType,
     config |-> [settings |-> src.settings, cursor |-> cursor]]

\* the payload of normalizeQueue.add
NormalizeJobData(job, result) ==
    [name |-> "normalize", sourceId |-> job.data.sourceId,
     sourceType |-> job.data.sourceType,
     rawItems |-> result.items, fetchJobId |-> job.id]

\* normalize worker: const { ..., sourceSettings } = job.data, then
\* parseSourceFilters(sourceSettings) and parseModerationConfig(sourceSettings)
SourceSettings(data) ==
    IF "sourceSettings" \in DOMAIN data THEN data.sourceSettings ELSE NoSettings
ParseSourceFilters(sourceSettings) ==
    IF sourceSettings.filters = "undefined" THEN "no filters" ELSE sourceSettings.filters
ParseModerationConfig(sourceSettings) ==
    IF sourceSettings.moderation = "undefined" THEN "defaults" ELSE sourceSettings.moderation

\* the fetch jobs added from outside (not continuations)
Triggered == {n \in DOMAIN jobs : jobs[n].queue = "fetch" /\ jobs[n].data.config.cursor = 0}

FetchInit == fetching = <<>>

\* the processor of fetch job n is at step pc
FetchAt(n, pc) ==
    /\ n \in DOMAIN fetching
    /\ jobs[n].queue = "fetch" /\ jobs[n].state = "active"
    /\ fetching[n].pc = pc

\* the scheduler or an admin adds a fetch job for a source
TriggerFetch(src) ==
    /\ Cardinality(Triggered) < MaxTriggers
    /\ AddStageJob("fetch", FetchJobData(src, 0))
    /\ fetching' = Append(fetching, NotFetching)
    /\ UNCHANGED <<content, objects, temp, exec>>
    /\ UNCHANGED outsideFetch

\* the fetch worker reserves a waiting job: the processor starts
FetchReserve(n) ==
    /\ jobs[n].queue = "fetch" /\ jobs[n].state = "waiting"
    /\ jobs' = [jobs EXCEPT ![n].state = "active"]
    /\ fetching' = [fetching EXCEPT ![n] = [NotFetching EXCEPT !.pc = "fetchFromSource"]]
    /\ UNCHANGED <<dlq, fails, content, objects, temp, exec>>
    /\ UNCHANGED outsideFetch

\* the step of the processor after the adapter returned result
AfterFetch(result) ==
    IF result.items # <<>> THEN "addNormalize"
    ELSE IF result.more THEN "addContinuation"
    ELSE "return"

\* await fetchFromSource(sourceConfig, config.cursor) settles: the fetcher consumed a
\* rate-limit token and was denied (it returns at once), or was allowed, contacted
\* the source and returned a page or threw
FetchFromSource(n, result, outcome) ==
    /\ FetchAt(n, "fetchFromSource")
    /\ result.more => jobs[n].data.config.cursor < MaxCursor
    /\ \/ /\ outcome = "denied"
          /\ result = NoFetchResult
          /\ LET limited == RateLimitedResult(jobs[n].data.config.cursor)
             IN fetching' = [fetching EXCEPT ![n] =
                                [pc |-> AfterFetch(limited), result |-> limited,
                                 denied |-> TRUE, contacted |-> FALSE]]
          /\ UNCHANGED <<jobs, dlq, fails>>
       \/ /\ outcome = "fetched"
          /\ fetching' = [fetching EXCEPT ![n] =
                             [pc |-> AfterFetch(result), result |-> result,
                              denied |-> FALSE, contacted |-> TRUE]]
          /\ UNCHANGED <<jobs, dlq, fails>>
       \/ /\ outcome = "error"
          /\ result = NoFetchResult
          /\ fetching' = [fetching EXCEPT ![n].pc = "thrown", ![n].contacted = TRUE]
          /\ Throws(n, "fetchFromSource")
    /\ UNCHANGED <<content, objects, temp, exec>>
    /\ UNCHANGED outsideFetch

\* await normalizeQueue.add(...) settles
AddNormalizeJob(n, ok) ==
    /\ FetchAt(n, "addNormalize")
    /\ IF ok
       THEN /\ jobs' = Append(jobs, QueueAdd("normalize",
                                  NormalizeJobData(jobs[n], fetching[n].result), attempts))
            /\ fails' = Append(fails, [count |-> 0, reason |-> "none"])
            /\ fetching' = Append([fetching EXCEPT ![n].pc =
                                      IF fetching[n].result.more THEN "addContinuation"
                                      ELSE "return"],
                                  NotFetching)
            /\ UNCHANGED dlq
       ELSE /\ fetching' = [fetching EXCEPT ![n].pc = "thrown"]
            /\ Throws(n, "normalizeQueue.add")
    /\ UNCHANGED <<content, objects, temp, exec>>
    /\ UNCHANGED outsideFetch

\* the options of the continuation job: { delay: 1000, priority: 3 }
WithoutDelay(job) == job
WithDelay(job) == [job EXCEPT !.opts.delay = 1000]

\* await fetchQueue.add(...) of the continuation job settles
AddContinuationJob(n, ok) ==
    /\ FetchAt(n, "addContinuation")
    /\ IF ok
       THEN /\ jobs' = Append(jobs, WithDelay(QueueAdd("fetch",
                                  [jobs[n].data EXCEPT !.config.cursor = @ + 1], attempts)))
            /\ fails' = Append(fails, [count |-> 0, reason |-> "none"])
            /\ fetching' = Append([fetching EXCEPT ![n].pc = "return"],
                                  NotFetching)
            /\ UNCHANGED dlq
       ELSE /\ fetching' = [fetching EXCEPT ![n].pc = "thrown"]
            /\ Throws(n, "fetchQueue.add")
    /\ UNCHANGED <<content, objects, temp, exec>>
    /\ UNCHANGED outsideFetch

\* the normalize worker reserves a waiting normalize job: its processor starts
NormalizeReserve(m) ==
    /\ jobs[m].queue = "normalize" /\ jobs[m].state = "waiting"
    /\ jobs' = [jobs EXCEPT ![m].state = "active"]
    /\ UNCHANGED <<dlq, fails, fetching, content, objects, temp, exec>>
    /\ UNCHANGED outsideFetch

\* the processor returns
FetchReturn(n) ==
    /\ FetchAt(n, "return")
    /\ fetching' = [fetching EXCEPT ![n].pc = "returned"]
    /\ Completes(n)
    /\ UNCHANGED <<content, objects, temp, exec>>
    /\ UNCHANGED outsideFetch

FetchNext ==
    \/ \E src \in Sources : TriggerFetch(src)
    \/ \E n \in DOMAIN jobs : FetchReserve(n)
    \/ \E n \in DOMAIN jobs, result \in FetchResults, outcome \in {"denied", "fetched", "error"} :
           FetchFromSource(n, result, outcome)
    \/ \E n \in DOMAIN jobs, ok \in BOOLEAN : AddNormalizeJob(n, ok)
    \/ \E n \in DOMAIN jobs, ok \in BOOLEAN : AddContinuationJob(n, ok)
    \/ \E n \in DOMAIN jobs : FetchReturn(n)

\* one poll of source s1, pages of at most one item: its fetch job, the jobs of
\* its further pages, their retries
PollNext ==
    \/ \E src \in Sources : jobs = <<>> /\ src.sourceId = "s1" /\ TriggerFetch(src)
    \/ \E n \in DOMAIN jobs : FetchReserve(n)
    \/ \E n \in DOMAIN jobs, result \in FetchResults, outcome \in {"denied", "fetched", "error"} :
           Len(result.items) < 2 /\ FetchFromSource(n, result, outcome)
    \/ \E n \in DOMAIN jobs, ok \in BOOLEAN : AddNormalizeJob(n, ok)
    \/ \E n \in DOMAIN jobs, ok \in BOOLEAN : AddContinuationJob(n, ok)
    \/ \E n \in DOMAIN jobs : FetchReturn(n)

\* the fetch worker and the normalize worker side by side
OrderingNext ==
    \/ \E src \in Sources : TriggerFetch(src)
    \/ \E n \in DOMAIN jobs : FetchReserve(n)
    \/ \E n \in DOMAIN jobs, result \in FetchResults, outcome \in {"denied", "fetched", "error"} :
           FetchFromSource(n, result, outcome)
    \/ \E n \in DOMAIN jobs, ok \in BOOLEAN : AddNormalizeJob(n, ok)
    \/ \E n \in DOMAIN jobs, ok \in BOOLEAN : AddContinuationJob(n, ok)
    \/ \E n \in DOMAIN jobs : FetchReturn(n)
    \/ \E m \in DOMAIN jobs : NormalizeReserve(m)

(***************************************************************************)
(*                             SCHEDULER                                   *)
(*               src/src/services/scheduler.service.ts                     *)
(***************************************************************************)

\* DEFAULT_POLL_INTERVALS, in milliseconds
DEFAULT_POLL_INTERVALS ==
    [RSS |-> 900000, YOUTUBE |-> 3600000, PODCAST |-> 3600000,
     PODCAST_DISCOVERY |-> 86400000, REDDIT |-> 600000, TWITTER |-> 1800000,
     UPLOAD |-> 0, MANUAL |-> 0]

\* config.pollIntervalMs: 0 stands for a source without one
PollIntervals == {0, 300000, 900000}

\* the sources the scheduler is called for: (kind, id)
Scheduled == {<<"RSS", "s1">>, <<"UPLOAD", "s1">>}

\* SourceConfig, by what the scheduler reads of it
SourceConfigs ==
    {c \in [id : {"s1"}, type : {"RSS", "UPLOAD"}, enabled : BOOLEAN,
            pollIntervalMs : PollIntervals] : <<c.type, c.id>> \in Scheduled}

\* config.pollIntervalMs || DEFAULT_POLL_INTERVALS[config.type]
Interval(config) ==
    IF config.pollIntervalMs # 0 THEN config.pollIntervalMs
    ELSE DEFAULT_POLL_INTERVALS[config.type]

\* `scheduled-${type}-${id}`
JobName(type, id) == <<"scheduled", type, id>>

\* the job store keeps one repeatable entry per job name and repeat options
Repeatable(name, every) == [name |-> name, every |-> every]

\* fetchQueue.removeRepeatable(jobName, { every }): the entry of that name and interval
RemoveRepeatable(name, every) == repeatables \ {Repeatable(name, every)}

NoCall == [id |-> "none", type |-> "none", enabled |-> FALSE, pollIntervalMs |-> 0]

SchedulerInit ==
    /\ repeatables = {}
    /\ scheduling = [src \in Scheduled |-> NoCall]
    /\ lastCall = [op |-> "none", source |-> <<"none", "none">>, result |-> "none"]

\* scheduleSource(config) up to its fetchQueue.add: a disabled source and a source
\* without an interval are refused; otherwise unscheduleSource(config.id, config.type)
\* has removed the entry it names
ScheduleSource(config) ==
    /\ scheduling[<<config.type, config.id>>] = NoCall
    /\ IF ~config.enabled \/ Interval(config) = 0
       THEN /\ lastCall' = [op |-> "scheduleSource", source |-> <<config.type, config.id>>,
                            result |-> "undefined"]
            /\ UNCHANGED <<repeatables, scheduling>>
       ELSE /\ repeatables' = RemoveRepeatable(JobName(config.type, config.id),
                                               DEFAULT_POLL_INTERVALS[config.type])
            /\ scheduling' = [scheduling EXCEPT ![<<config.type, config.id>>] = config]
            /\ UNCHANGED lastCall
    /\ UNCHANGED outsideScheduler

\* scheduleSource: fetchQueue.add(jobName, data, { repeat: { every: interval }, ... })
\* settles and the call returns the job id
AddRepeatable(src) ==
    /\ scheduling[src] # NoCall
    /\ repeatables' = repeatables \cup
           {Repeatable(JobName(src[1], src[2]), Interval(scheduling[src]))}
    /\ scheduling' = [scheduling EXCEPT ![src] = NoCall]
    /\ lastCall' = [op |-> "scheduleSource", source |-> src, result |-> "scheduled"]
    /\ UNCHANGED outsideScheduler

\* unscheduleSource(sourceId, sourceType)
UnscheduleSource(src) ==
    /\ LET name == JobName(src[1], src[2])
           every == DEFAULT_POLL_INTERVALS[src[1]]
       IN /\ repeatables' = RemoveRepeatable(name, every)
          /\ lastCall' = [op |-> "unscheduleSource", source |-> src,
                          result |-> IF Repeatable(name, every) \in repeatables
                                     THEN "removed" ELSE "not removed"]
    /\ UNCHANGED scheduling
    /\ UNCHANGED outsideScheduler

SchedulerNext ==
    \/ \E config \in SourceConfigs : ScheduleSource(config)
    \/ \E src \in Scheduled : AddRepeatable(src)
    \/ \E src \in Scheduled : UnscheduleSource(src)

(***************************************************************************)
(*                              SHUTDOWN                                   *)
(*              src/src/index.ts, src/src/workers/index.ts                 *)
(***************************************************************************)

MaxActive == 2          \* jobs one worker has in execution at once

ShutdownInit ==
    /\ shutdown = "running"
    /\ workers = [q \in WorkQueues |-> [closing |-> FALSE, active |-> 0]]
    /\ conns = [queues |-> "open", redis |-> "open"]

\* a worker reserves a waiting job of its queue: not once its close() was called
WorkerReserve(q) ==
    /\ shutdown # "exited"
    /\ ~workers[q].closing
    /\ workers[q].active < MaxActive
    /\ workers' = [workers EXCEPT ![q].active = @ + 1]
    /\ UNCHANGED <<shutdown, conns>>
    /\ UNCHANGED outsideShutdown

\* the processor of a job in execution settles
WorkerFinish(q) ==
    /\ shutdown # "exited"
    /\ workers[q].active > 0
    /\ workers' = [workers EXCEPT ![q].active = @ - 1]
    /\ UNCHANGED <<shutdown, conns>>
    /\ UNCHANGED outsideShutdown

\* SIGTERM / SIGINT: shutdown(signal) starts and awaits stopServer()
Signal ==
    /\ shutdown = "running"
    /\ shutdown' = "stopServer"
    /\ UNCHANGED <<workers, conns>>
    /\ UNCHANGED outsideShutdown

\* stopServer() settles: closeWorkers() calls close() of every worker, or the catch
\* block exits the process
StopServer(ok) ==
    /\ shutdown = "stopServer"
    /\ IF ok
       THEN /\ shutdown' = "closeWorkers"
            /\ workers' = [q \in WorkQueues |-> [workers[q] EXCEPT !.closing = TRUE]]
       ELSE /\ shutdown' = "exited"
            /\ UNCHANGED workers
    /\ UNCHANGED conns
    /\ UNCHANGED outsideShutdown

\* closeWorkers() settles: every worker.close() has resolved, which it does when the
\* worker has no job in execution left
CloseWorkers ==
    /\ shutdown = "closeWorkers"
    /\ \A q \in WorkQueues : workers[q].active = 0
    /\ shutdown' = "closeQueues"
    /\ UNCHANGED <<workers, conns>>
    /\ UNCHANGED outsideShutdown

\* closeQueues() settles
CloseQueues(ok) ==
    /\ shutdown = "closeQueues"
    /\ IF ok
       THEN /\ shutdown' = "closeRedisConnection"
            /\ conns' = [conns EXCEPT !.queues = "closed"]
       ELSE /\ shutdown' = "exited"
            /\ UNCHANGED conns
    /\ UNCHANGED workers
    /\ UNCHANGED outsideShutdown

\* closeRedisConnection() settles, and the process exits
CloseRedisConnection(ok) ==
    /\ shutdown = "closeRedisConnection"
    /\ shutdown' = "exited"
    /\ conns' = IF ok THEN [conns EXCEPT !.redis = "closed"] ELSE conns
    /\ UNCHANGED workers
    /\ UNCHANGED outsideShutdown

ShutdownNext ==
    \/ \E q \in WorkQueues : WorkerReserve(q)
    \/ \E q \in WorkQueues : WorkerFinish(q)
    \/ Signal
    \/ \E ok \in BOOLEAN : StopServer(ok)
    \/ CloseWorkers
    \/ \E ok \in BOOLEAN : CloseQueues(ok)
    \/ \E ok \in BOOLEAN : CloseRedisConnection(ok)

(***************************************************************************)
(*                           SPECIFICATIONS                                *)
(***************************************************************************)

\* Every specification starts from the state after construction of all subsystems
\* and takes the steps of one of them.
Init ==
    /\ BreakerInit
    /\ JobsInit
    /\ NormalizeInit
    /\ MediaInit
    /\ RateInit
    /\ KeysInit
    /\ FetchInit
    /\ SchedulerInit
    /\ ShutdownInit

SpecBreaker == Init /\ [][BreakerNext]_vars

SpecJobs == Init /\ [][JobsNext]_vars

SpecNormalize == Init /\ [][NormalizeNext]_vars
SpecOutage == Init /\ [][OutageNext]_vars

SpecMedia == Init /\ [][MediaNext]_vars

SpecRate == Init /\ [][RateNext]_vars

SpecBurst == Init /\ [][BurstNext]_vars

SpecKeys == Init /\ [][KeysNext]_vars

SpecFetch == Init /\ [][FetchNext]_vars

SpecPoll == Init /\ [][PollNext]_vars

SpecOrdering == Init /\ [][OrderingNext]_vars

SpecScheduler == Init /\ [][SchedulerNext]_vars

SpecShutdown == Init /\ [][ShutdownNext]_vars

(***************************************************************************)
(* Claims about the circuit breaker (checked under SpecBreaker)            *)
(***************************************************************************)

\* C8: starting from CLOSED, once failure_threshold failed calls have completed with
\* no successful call in between, the failure that reaches the threshold leaves the
\* breaker OPEN; a failure that leaves the run of failures shorter leaves it CLOSED.
C8_OpensAtThreshold ==
    (last.op = "failure" /\ last.pre = CLOSED) =>
        /\ (streak >= failureThreshold => breaker.state = OPEN)
        /\ (streak < failureThreshold => breaker.state = CLOSED)

C8_Witness ==
    /\ last.op = "failure"
    /\ last.pre = CLOSED
    /\ streak = failureThreshold
    /\ breaker.state = OPEN

\* C9: execute throws CircuitOpenError, and does not invoke the wrapped function,
\* exactly when it finds the breaker OPEN with less than reset_timeout elapsed since
\* the last recorded failure, or HALF_OPEN with all half_open_probes slots taken;
\* in every other situation the wrapped function is invoked (the call is in flight).
C9_RejectsExactlyWithoutSlot ==
    last.op = "execute" =>
        /\ last.outcome = "rejected" <=>
              \/ (last.pre = OPEN /\ ~last.elapsed)
              \/ (last.pre = HALF_OPEN /\ last.slots >= halfOpenRequests)
        /\ last.outcome = "rejected" <=> calls[last.call].pc = "idle"
        /\ last.outcome = "invoked" <=> calls[last.call].pc = "running"

C9_Witness ==
    /\ last.op = "execute"
    /\ last.outcome = "rejected"
    /\ last.pre = HALF_OPEN
    /\ last.slots >= halfOpenRequests

\* C10: an execute or getState that finds the breaker OPEN with at least reset_timeout
\* elapsed since the last recorded failure moves it to HALF_OPEN with the success
\* counter at zero and the probe counter restarted from zero (the execute itself then
\* takes the first probe slot and its function is invoked as a probe); an operation
\* that finds it OPEN with less than reset_timeout elapsed leaves it OPEN.
C10_HalfOpenAfterResetTimeout ==
    /\ (last.op = "execute" /\ last.pre = OPEN /\ last.elapsed) =>
          /\ breaker.state = HALF_OPEN
          /\ breaker.successCount = 0
          /\ breaker.halfOpenAttempts = 1
          /\ last.outcome = "invoked"
          /\ calls[last.call].pc = "running"
          /\ calls[last.call].probe
    /\ (last.op = "getState" /\ last.pre = OPEN /\ last.elapsed) =>
          /\ breaker.state = HALF_OPEN
          /\ breaker.successCount = 0
          /\ breaker.halfOpenAttempts = 0
    /\ (last.op \in {"execute", "getState", "success", "failure"}
            /\ last.pre = OPEN /\ ~last.elapsed) =>
          breaker.state = OPEN

C10_Witness ==
    /\ last.op = "execute"
    /\ last.pre = OPEN
    /\ last.elapsed
    /\ breaker.state = HALF_OPEN
    /\ calls[last.call].probe

\* C11: in HALF_OPEN, the successful call that brings the calls succeeded since
\* HALF_OPEN was entered to half_open_probes leaves the breaker CLOSED with its
\* failure, success and probe counters at zero; a successful call that leaves them
\* fewer leaves it HALF_OPEN, and the breaker is never HALF_OPEN with that many.
C11_ClosesAfterProbes ==
    /\ (last.op = "success" /\ last.pre = HALF_OPEN) =>
          /\ probed >= halfOpenRequests =>
                /\ breaker.state = CLOSED
                /\ breaker.failureCount = 0
                /\ breaker.successCount = 0
                /\ breaker.halfOpenAttempts = 0
          /\ probed < halfOpenRequests => breaker.state = HALF_OPEN
    /\ breaker.state = HALF_OPEN => probed < halfOpenRequests

C11_Witness ==
    /\ last.op = "success"
    /\ last.pre = HALF_OPEN
    /\ probed = halfOpenRequests
    /\ breaker.state = CLOSED
    /\ breaker.lastFailureTime > 0

C11_WitnessStays ==
    /\ last.op = "success"
    /\ last.pre = HALF_OPEN
    /\ probed = halfOpenRequests - 1
    /\ breaker.state = HALF_OPEN

\* C12: in HALF_OPEN, one failed call moves the breaker to OPEN and records the time
\* of that failure as the last failure time, so that a later call is rejected until
\* reset_timeout has elapsed since then.
C12_HalfOpenFailureReopens ==
    [][ \A c \in Calls :
            (breaker.state = HALF_OPEN /\ Fail(c)) =>
                /\ breaker'.state = OPEN
                /\ breaker'.lastFailureTime = now
                /\ ExecuteEntry(breaker', now').thrown ]_vars

C12_Witness ==
    /\ last.op = "failure"
    /\ last.pre = HALF_OPEN
    /\ breaker.state = OPEN
    /\ breaker.lastFailureTime = now
    /\ now >= resetTimeout + 1

\* C13: in CLOSED, a successful call sets the failure count to zero and leaves the
\* breaker CLOSED; the breaker goes from CLOSED to OPEN only by a failure that brings
\* the failures since the last successful call to failure_threshold.
C13_SuccessResetsFailures ==
    [][ /\ \A c \in Calls :
              (breaker.state = CLOSED /\ Succeed(c)) =>
                  /\ breaker'.failureCount = 0
                  /\ breaker'.state = CLOSED
        /\ (breaker.state = CLOSED /\ breaker'.state = OPEN) =>
              /\ streak' >= failureThreshold
              /\ \E c \in Calls : Fail(c) ]_vars

C13_Witness ==
    /\ last.op = "success"
    /\ last.pre = CLOSED
    /\ breaker.state = CLOSED
    /\ breaker.failureCount = 0
    /\ breaker.lastFailureTime = now
    /\ now > 0

(***************************************************************************)
(* Claims about the job store and the dead-letter queue (under SpecJobs)   *)
(***************************************************************************)

\* The dead-letter records that name a job: its queue and its id in that queue.
DeadLettersOf(job) ==
    {r \in BagToSet(dlq) : r.originalQueue = job.queue /\ r.originalJobId = job.id}

FromMedia == {n \in DOMAIN jobs : jobs[n].queue = "ai" /\ jobs[n].data.name = "ai"}

\* the media jobs for the content item of job n
MediaJobsOf(n) ==
    {m \in DOMAIN jobs :
        jobs[m].queue = "media" /\ jobs[m].data.contentItemId = jobs[n].data.contentItemId}

\* C3: an AI job for a content item is in the queue only if normalize enqueued it
\* directly for an item with media ready, or the media stage has set the item's
\* media_url at the collaborator (update_artifacts posted).
C3_EnrichmentOnlyWithMediaUrl ==
    \A n \in FromMedia : content[jobs[n].data.contentItemId].media_url

\* C4: an AI job added by the media worker is not active while a media job for the
\* same content item is still in execution (its processor has not yet returned).
C4_EnrichmentAfterMediaReturned ==
    \A n \in FromMedia :
        jobs[n].state = "active" => \A m \in MediaJobsOf(n) : jobs[m].state # "active"

\* C5: once the status of a content item at the collaborator is READY, FAILED or
\* ARCHIVED, no step of a media or AI job execution (first attempt or automatic
\* retry) writes another status for it.
C5_TerminalStatusStays ==
    [][ \A c \in Contents :
          content[c].status \in Terminal => content'[c].status = content[c].status
      ]_vars

\* the media jobs whose processor is in execution
MediaRunning == {n \in DOMAIN exec : jobs[n].queue = "media" /\ jobs[n].state = "active"}

\* C18: when a media job for content item c runs and content/c/processed.mp4 is in the
\* object store, the execution goes from the existence test straight to enqueueing an
\* AI job for c that carries that object's key, downloads, transcodes and uploads
\* nothing (no temp file, object store and media_url as they are), and with the AI job
\* enqueued the media job completes.
C18_AlreadyProcessedShortCircuits ==
    [][ \A n \in MediaRunning :
            LET c == jobs[n].data.contentItemId
            IN /\ (MediaObjectExists(n) /\ c \in objects) =>
                      /\ exec'[n].pc = "enqueueProcessedKey"
                      /\ exec'[n].tempFiles = {}
               /\ (exec[n].pc = "enqueueProcessedKey" /\ exec'[n] # exec[n]) =>
                      /\ objects' = objects /\ temp' = temp /\ content' = content
                      /\ exec[n].tempFiles = {}
                      /\ \/ /\ exec'[n].pc = "finally" /\ exec'[n].error = "none"
                            /\ Len(jobs') = Len(jobs) + 1
                            /\ jobs'[Len(jobs')].queue = "ai"
                            /\ jobs'[Len(jobs')].state = "waiting"
                            /\ jobs'[Len(jobs')].data.contentItemId = c
                            /\ jobs'[Len(jobs')].data.mediaPath = "processedKey"
                         \/ /\ exec'[n].pc = "catch" /\ exec'[n].error = "enqueueAIJob"
                            /\ jobs' = jobs
               /\ (MediaFinally(n) /\ exec[n].error = "none" /\ exec[n].tempFiles = {}) =>
                      /\ jobs'[n].state = "completed"
                      /\ objects' = objects /\ temp' = temp /\ content' = content ]_vars

C18_Witness ==
    \E n, m \in DOMAIN jobs :
        /\ jobs[n].queue = "media" /\ jobs[n].state = "completed"
        /\ jobs[m].queue = "ai" /\ jobs[m].data.mediaPath = "processedKey"
        /\ jobs[m].data.contentItemId = jobs[n].data.contentItemId
        /\ jobs[n].data.contentItemId \in objects
        /\ \A k \in DOMAIN jobs : jobs[k].data.mediaPath # "processedPath"

\* C31: when an execution of a media job ends (the finally block has run, on the
\* way out of a success, a short-circuit or a failure at any step), none of the
\* files that execution wrote in the temp directory is left there.
C31_TempFilesDeleted ==
    [][ \A n \in MediaRunning :
            (exec[n].pc = "finally" /\ exec'[n].pc = "done") =>
                exec[n].created \cap temp' = {} ]_vars

(***************************************************************************)
(* Claims about the normalize stage (checked under SpecNormalize)          *)
(***************************************************************************)

\* C1: whatever the interleaving of the upsertContentItem calls of normalize jobs,
\* all the calls for one idempotency key that return successfully return the same
\* content id (the id of the collaborator's record for the key), and the
\* collaborator holds at most one record for the key.
C1_SameContentIdPerKey ==
    /\ \A a \in returned, b \in returned : a[1] = b[1] => a[2] = b[2]
    /\ \A a \in returned : \E c \in CmsFor(a[1]) : c.id = a[2]
    /\ \A k \in Keys : Cardinality(CmsFor(k)) <= 1

\* two calls for one key overlap: the first has returned the id it created, the
\* second passed the dedup check and the cache before the first wrote them, was
\* answered "not created" by the collaborator and is about to return
C1_Witness ==
    \E k \in Keys :
        /\ norm["w1"].pc = "enqueue" /\ norm["w1"].item.idempotencyKey = k
        /\ norm["w1"].created
        /\ <<k, norm["w1"].contentItemId>> \in returned
        /\ norm["w2"].pc = "markContent" /\ norm["w2"].item.idempotencyKey = k
        /\ ~norm["w2"].created

\* C6: normalize adds a job to the media or AI queue only in the turn of an item
\* whose type is VIDEO or PODCAST and whose status is not ARCHIVED, and the job is
\* for that item; so no job is ever added for an ARTICLE, TWEET or COMMENT.
C6_FanOutOnlyForLiveMedia ==
    [][ enqueued' # enqueued =>
          \E w \in NormWorkers :
              /\ norm'[w] # norm[w]
              /\ norm[w].item.type \in {"VIDEO", "PODCAST"}
              /\ norm[w].item.status # "ARCHIVED"
              /\ enqueued' = enqueued (+) SetToBag({[queue |-> FanOutQueue(norm[w].item),
                                                     contentItemId |-> norm[w].contentItemId,
                                                     contentType |-> norm[w].item.type]})
      ]_vars

\* both branches of the fan-out were taken: a media job and an AI job are enqueued
C6_Witness ==
    \E j \in BagToSet(enqueued), i \in BagToSet(enqueued) :
        /\ j.queue = "media" /\ j.contentType \in {"VIDEO", "PODCAST"}
        /\ i.queue = "ai" /\ i.contentType \in {"VIDEO", "PODCAST"}

\* C7: when the worker consults the dedup store for an item, the store holds a mark
\* for the item's key and answers the read (the check raises no error), the item's
\* turn ends there: the collaborator is not
\* called (no record is created, no upsert returns), no job is enqueued, and the
\* job's duplicates counter, and no other, goes up by one.
C7_MarkedItemSkipped ==
    [][ \A w \in NormWorkers :
          ( /\ norm[w].pc = "checkDedup"
            /\ redis[<<DEDUP_PREFIX, norm[w].item.idempotencyKey>>] # NoId
            /\ norm'[w] # norm[w]
            /\ norm'[w].caught = norm[w].caught )
          => /\ norm'[w].pc = "loop"
             /\ norm'[w].counts = [norm[w].counts EXCEPT !["duplicates"] = @ + 1]
             /\ cms' = cms
             /\ returned' = returned
             /\ enqueued' = enqueued
      ]_vars

\* a job created an item and enqueued its media job; the next job met the same key
\* while all the marks were in place, and counted one duplicate and nothing else
C7_Witness ==
    /\ started = 2 /\ expired = 0
    /\ Cardinality(cms) = 1
    /\ BagCardinality(enqueued) = 1
    /\ norm["w1"].pc = "loop" /\ norm["w1"].data.sourceType = "MANUAL"
    /\ norm["w1"].counts["duplicates"] = 1 /\ norm["w1"].counts["processed"] = 0
    /\ norm["w2"].pc = "free"

(***************************************************************************)
(* Claims about the rate limiter (checked under SpecRate)                  *)
(***************************************************************************)

\* the consumeRateLimit calls made for a key, in the order they were made
ConsumesOf(k) == SelectSeq(consumed, LAMBDA e : e.key = k)

\* the first j calls for a key have returned and none ran beside another call for it
Consecutive(cs, j) == \A i \in 1..j : cs[i].done /\ ~cs[i].overlap

\* C14: for a key with no prior hits, of consecutive consumeRateLimit calls made within
\* one window W (from the first call to the return of the last in less than W), each
\* of the first max_requests returns allowed and the next one returns allowed = false
\* with remaining = 0 and 0 < reset_ms <= W.
C14_NthAllowedNextDenied ==
    \A k \in RateKeys :
        LET cs == ConsumesOf(k)
        IN \A j \in 1..Len(cs) :
              (Consecutive(cs, j) /\ cs[j].ret - cs[1].at < windowMs) =>
                  /\ j <= maxRequests => cs[j].result.allowed
                  /\ j = maxRequests + 1 =>
                        /\ ~cs[j].result.allowed
                        /\ cs[j].result.remaining = 0
                        /\ cs[j].result.resetMs > 0
                        /\ cs[j].result.resetMs <= windowMs

C14_Witness ==
    \E k \in RateKeys :
        LET cs == ConsumesOf(k)
        IN /\ Len(cs) = maxRequests + 1
           /\ Consecutive(cs, Len(cs))
           /\ cs[Len(cs)].ret - cs[1].at = windowMs - 1
           /\ ~cs[Len(cs)].result.allowed
           /\ cs[Len(cs)].result.resetMs < windowMs

\* C15: a consumeRateLimit call adds a hit to the sorted set of its key exactly when
\* its check returned allowed, and then exactly one; a call whose check returned
\* denied adds none and leaves the set as it is when the check returns; no other
\* step adds a hit.
C15_RecordsOnlyIfAllowed ==
    [][ \A k \in RateKeys :
            /\ \A p \in Callers :
                  (RecordRequest(p) /\ rate[p].key = k) =>
                      IF rate[p].result.allowed
                      THEN /\ zsets[k] \subseteq zsets'[k]
                           /\ \E h \in zsets'[k] :
                                 /\ zsets'[k] \ zsets[k] = {h}
                                 /\ h.member = rate[p].n
                      ELSE zsets'[k] = zsets[k]
            /\ zsets'[k] \ zsets[k] # {} =>
                  \E p \in Callers :
                      RecordRequest(p) /\ rate[p].key = k /\ rate[p].result.allowed ]_vars

C15_Witness ==
    \E i, j \in DOMAIN consumed :
        /\ consumed[i].done /\ consumed[i].result.allowed
        /\ consumed[j].done /\ ~consumed[j].result.allowed
        /\ consumed[j].key = consumed[i].key
        /\ \E h \in zsets[consumed[i].key] : h.member = i
        /\ \A h \in zsets[consumed[i].key] : h.member # j

\* C16: for every key and at every instant, the hits in the sorted set whose
\* timestamps lie within the last window W are at most max_requests, for any
\* interleaving of the callers consuming that key.
C16_WindowNeverOverfull ==
    \A k \in RateKeys :
        Cardinality(InWindow(zsets[k], clock - windowMs)) <= maxRequests

(***************************************************************************)
(* Claims about the idempotency keys (checked under SpecKeys)              *)
(***************************************************************************)

\* the tracking query parameters: utm_*, ref, source
TrackingParameters ==
    {"utm_source", "utm_medium", "utm_campaign", "utm_content", "utm_term", "utm_id",
     "ref", "source"}

\* C17: for every input URL string u, canonicalizeUrl(canonicalizeUrl(u)) =
\* canonicalizeUrl(u), and canonicalizeUrl(u) = canonicalizeUrl(u') for every u' that
\* is u without one of its tracking query parameters (utm_*, ref, source).
C17_CanonicalIdempotent ==
    /\ keyed.stage = "rekeyed" => keyed.otherKey = keyed.key
    /\ (keyed.stage = "variant" /\ keyed.removed \in TrackingParameters) =>
          keyed.otherKey = keyed.key

(***************************************************************************)
(* Claims about the fetch worker (checked under SpecFetch)                 *)
(***************************************************************************)

\* the normalize jobs in the queue that name fetch job n
NormalizeJobsOf(n) ==
    {m \in DOMAIN jobs : jobs[m].queue = "normalize" /\ jobs[m].data.fetchJobId = jobs[n].id}

\* C19: for every fetch job that has completed, if the adapter output was non-empty
\* exactly one normalize job has been enqueued for it (also when the job store
\* retried the fetch job), and if the output was empty none has.
C19_OneNormalizeJobPerFetch ==
    \A n \in DOMAIN jobs :
        (jobs[n].queue = "fetch" /\ jobs[n].state = "completed") =>
            /\ fetching[n].result.items # <<>> => Cardinality(NormalizeJobsOf(n)) = 1
            /\ fetching[n].result.items = <<>> => NormalizeJobsOf(n) = {}

\* C20: the normalize job the fetch worker enqueues carries the fetched raw items,
\* the id of the fetch job, and the settings of the source, so that the filters and
\* the moderation configuration the normalize worker reads from it are those of the
\* source that was fetched.
C20_NormalizeJobCarriesSettings ==
    \A n \in DOMAIN jobs :
        jobs[n].queue = "fetch" =>
            \A m \in NormalizeJobsOf(n) :
                /\ jobs[m].data.rawItems # <<>>
                /\ jobs[m].data.sourceId = jobs[n].data.sourceId
                /\ ParseSourceFilters(SourceSettings(jobs[m].data))
                       = ParseSourceFilters(jobs[n].data.config.settings)
                /\ ParseModerationConfig(SourceSettings(jobs[m].data))
                       = ParseModerationConfig(jobs[n].data.config.settings)

\* the fetch job whose processor added normalize job m
FetchJobOf(m) ==
    CHOOSE n \in DOMAIN jobs : jobs[n].queue = "fetch" /\ jobs[n].id = jobs[m].data.fetchJobId

\* C21: a normalize job is never active (nor further) while the fetch job that
\* enqueued it has not completed.
C21_NormalizeAfterFetchCompleted ==
    \A m \in DOMAIN jobs :
        (jobs[m].queue = "normalize" /\ jobs[m].state # "waiting") =>
            jobs[FetchJobOf(m)].state = "completed"

CaughtOf(w) == {e[2] : e \in norm[w].caught}

\* C23: an error raised while one raw item is processed (the mapping gives nothing,
\* the dedup check, the collaborator call or the downstream enqueue rejects) adds one
\* to the failed counter and leaves the processor at the head of its item loop: the
\* job is not failed, it goes on to the remaining items and to its return.
C23_ItemErrorsAbsorbed ==
    [][ \A w \in NormWorkers :
            /\ (norm'[w].caught # norm[w].caught /\ norm'[w].caught # {}) =>
                   /\ norm'[w].pc = "loop"
                   /\ norm'[w].counts.failed = norm[w].counts.failed + 1
                   /\ norm'[w].taken = norm[w].taken
            /\ (norm[w].pc = "loop" /\ norm'[w].taken = norm[w].taken + 1
                  /\ norm'[w].item = NoItem
                  /\ norm'[w].counts.filtered = norm[w].counts.filtered) =>
                   /\ norm'[w].pc = "loop"
                   /\ norm'[w].counts.failed = norm[w].counts.failed + 1 ]_vars

\* the first item of a job raised an error in the collaborator call, and the second
\* was created and fanned out
C23_Witness ==
    \E w \in NormWorkers :
        /\ norm[w].pc = "loop" /\ norm[w].taken = 2
        /\ <<1, "createContentItem">> \in norm[w].caught
        /\ norm[w].counts.failed = 1
        /\ norm[w].counts.processed = 1
        /\ norm[w].counts.mediaEnqueued = 1

\* C24: a normalize job in which an item failed fast with CircuitOpenError does not
\* return (complete): it is failed to the job store.
C24_CircuitOpenFailsJob ==
    [][ \A w \in NormWorkers :
            "CircuitOpenError" \in CaughtOf(w) => ~FinishJob(w) ]_vars

\* the AI jobs whose processor has started
AiStarted == {n \in DOMAIN exec : jobs[n].queue = "ai"}

\* C25: in an AI job a failure of the transcript step or of the embedding step is
\* logged and nothing else: the step writes no status and fails no job, the processor
\* goes on to its next step with nothing thrown, and the step after the embedding is
\* the write of READY, which when it succeeds leaves the item READY.
C25_BestEffortSteps ==
    [][ \A n \in AiStarted :
            /\ (n \in DOMAIN exec' /\ exec'[n].swallowed # exec[n].swallowed
                  /\ exec'[n].swallowed # {}) =>
                   /\ exec'[n].error = "none"
                   /\ exec'[n].pc \in {"embedding", "setReady"}
                   /\ jobs' = jobs /\ dlq' = dlq
                   /\ content' = content
            /\ (exec[n].pc = "embedding" /\ exec'[n] # exec[n]) => exec'[n].pc = "setReady"
            /\ (exec[n].pc = "setReady" /\ exec'[n].pc = "finally") =>
                   content'[jobs[n].data.contentItemId].status = "READY" ]_vars

\* an AI job whose transcript and embedding both failed has completed, and the item
\* is READY without an embedding
C25_Witness ==
    \E n \in AiStarted :
        /\ jobs[n].state = "completed"
        /\ "transcript" \in exec[n].swallowed
        /\ "generateEmbedding" \in exec[n].swallowed
        /\ content[jobs[n].data.contentItemId].status = "READY"
        /\ ~content[jobs[n].data.contentItemId].embedding

\* C26: no media or AI job completes after a collaborator write of it (a status,
\* the artifacts, the embedding) failed.
C26_WriteFailureFailsJob ==
    \A n \in DOMAIN exec :
        jobs[n].state = "completed" =>
            /\ exec[n].error = "none"
            /\ "updateEmbedding" \notin exec[n].swallowed

\* the jobs of content item c
JobsOf(c) == {n \in DOMAIN jobs : jobs[n].data.contentItemId = c}

\* C27: an item for which a media or AI job was enqueued, and whose jobs have all
\* completed or exhausted their attempts, is READY or FAILED at the collaborator.
C27_SettledItemsAreTerminal ==
    \A c \in Contents :
        (JobsOf(c) # {} /\ \A n \in JobsOf(c) : jobs[n].state \in {"completed", "failed"}) =>
            content[c].status \in {"READY", "FAILED"}

\* C28: while the item loop holds an item whose moderation decision is needs_review,
\* the item's status is PENDING, the job's moderationReview counter has counted it,
\* and the loop adds no media job and no AI job for it.
C28_NeedsReviewNotFannedOut ==
    [][ \A w \in NormWorkers :
            norm[w].item.moderation = "needs_review" =>
                /\ norm[w].item.status = "PENDING"
                /\ norm[w].counts.moderationReview >= 1
                /\ ~Enqueue(w, TRUE) ]_vars

\* the repeatable entries of a source
EntriesOf(src) == {e \in repeatables : e.name = JobName(src[1], src[2])}

\* C29: a source never has more than one repeatable fetch entry, and has none when
\* an unscheduleSource call for it has just returned.
C29_OneRepeatablePerSource ==
    \A src \in Scheduled :
        /\ Cardinality(EntriesOf(src)) <= 1
        /\ (lastCall.op = "unscheduleSource" /\ lastCall.source = src) =>
               EntriesOf(src) = {}

\* C30: once shutdown has begun no worker takes up another job, and the queue and
\* Redis connections are closed only when no job is in execution any more.
C30_ShutdownProtocol ==
    [][ /\ shutdown # "running" =>
               \A q \in WorkQueues : workers'[q].active <= workers[q].active
        /\ conns' # conns => \A q \in WorkQueues : workers[q].active = 0 ]_vars

\* C32: a collaborator call that is rejected with a client-side error (here the 409
\* answer to a create for a key the collaborator holds) is not a failure to the
\* breaker: it does not raise the failure count and does not open the breaker.
C32_ClientErrorNotCounted ==
    [][ \A w \in NormWorkers :
            CreateContentItem(w, "conflict") =>
                /\ breaker'.failureCount <= breaker.failureCount
                /\ (breaker'.state = OPEN => breaker.state = OPEN) ]_vars

\* the AI jobs normalize added directly, for items with media ready
Direct == {n \in AiStarted : jobs[n].data.name = "ai-manual"}

\* C33: the AI job that normalize adds directly for an item with media ready carries
\* the item's media URL, and its execution attempts the transcript (it transcribes,
\* or the attempt fails and is logged) before it goes on to the embedding and READY.
C33_DirectEnrichmentTranscribes ==
    \A n \in Direct :
        /\ jobs[n].data.mediaUrl
        /\ exec[n].pc # "transcript" =>
               \/ exec[n].transcript
               \/ exec[n].swallowed \cap {"extractAudio", "transcript"} # {}

\* the continuation jobs of fetch job n in a poll: the fetch jobs for the same source
\* at the cursor that follows the cursor of n
ContinuationsOf(n) ==
    {m \in DOMAIN jobs :
        /\ jobs[m].queue = "fetch"
        /\ jobs[m].data.sourceId = jobs[n].data.sourceId
        /\ jobs[m].data.config.cursor = jobs[n].data.config.cursor + 1}

\* C34: a fetch job never has more than one continuation job; when it has completed
\* and the adapter reported more with a next cursor, exactly one continuation job for
\* the same source and with that cursor has been enqueued, with a delay of at least
\* 1000 ms; when the adapter reported no more, none has, so the chain ends there.
C34_OneDelayedContinuation ==
    \A n \in DOMAIN jobs :
        jobs[n].queue = "fetch" =>
            /\ Cardinality(ContinuationsOf(n)) <= 1
            /\ \A m \in ContinuationsOf(n) :
                   /\ jobs[m].opts.delay >= 1000
                   /\ jobs[m].data.sourceType = jobs[n].data.sourceType
                   /\ jobs[m].data.config.settings = jobs[n].data.config.settings
            /\ jobs[n].state = "completed" =>
                   (fetching[n].result.more <=> ContinuationsOf(n) # {})

\* a poll of two pages has run to its end: the job of the first page completed with
\* more reported, its continuation completed with no more reported
C34_Witness ==
    \E n, m \in DOMAIN jobs :
        /\ jobs[n].queue = "fetch" /\ jobs[n].state = "completed"
        /\ fetching[n].result.more
        /\ ContinuationsOf(n) = {m}
        /\ jobs[m].opts.delay = 1000
        /\ jobs[m].state = "completed" /\ ~fetching[m].result.more
        /\ ContinuationsOf(m) = {}

\* the content items that went through the media stage: a media job was added for them
ThroughMedia == {jobs[n].data.contentItemId : n \in {k \in DOMAIN jobs : jobs[k].queue = "media"}}

\* C35: an item that went through the media stage is READY only if update_artifacts
\* has set its media_url at the collaborator, also when an earlier attempt of the
\* media job uploaded processed.mp4 and then failed.
C35_ReadyHasArtifacts ==
    \A c \in ThroughMedia : content[c].status = "READY" => content[c].media_url

\* the media path of AI job n names a local file that is in the temp directory
MediaPathReadable(n) ==
    /\ jobs[n].data.mediaPath = "processedPath"
    /\ <<jobs[n].data.contentItemId, "processed">> \in temp

\* C36: when the execution of an AI job that the media stage enqueued reads its media
\* path (the transcript step), the path names a local media file that exists: not a
\* file the media job's cleanup has deleted, and not a storage key.
C36_MediaPathReadable ==
    [][ \A n \in FromMedia :
            (n \in DOMAIN exec /\ jobs[n].state = "active"
               /\ exec[n].pc = "transcript" /\ exec'[n].pc # "transcript") =>
                MediaPathReadable(n) ]_vars

\* the downstream jobs normalize has enqueued for the collaborator's records of a key
DownstreamJobs(key, added) ==
    {j \in BagToSet(added) : \E c \in CmsFor(key) : j.contentItemId = c.id}

\* the worker slots in the turn of the item loop that created the item of the key
CreatorsOf(key, slots) ==
    {w \in NormWorkers : slots[w].created /\ slots[w].item.idempotencyKey = key}

\* the collaborator holds the item of the key, no downstream job has been enqueued
\* for it, and the turn that created it is over: every other turn on the key meets
\* the dedup mark, the cached id or a created = false answer, and enqueues nothing
Abandoned(key) ==
    /\ CmsFor(key) # {}
    /\ DownstreamJobs(key, enqueued) = {}
    /\ CreatorsOf(key, norm) = {}

\* an abandoned item stays abandoned, whatever jobs are processed later
AbandonedStays ==
    [][ \A key \in Keys : Abandoned(key) => Abandoned(key)' ]_vars

\* C37: a VIDEO or PODCAST item that was created at the collaborator with a status
\* other than ARCHIVED is not abandoned without its downstream job: when a turn of
\* the item loop on such an item ends (by an enqueue that failed, by the dedup mark,
\* by a created = false answer, by an answer that was lost), the media or AI job of
\* the item has been enqueued, or the execution that created it is still in its turn.
C37_CreatedItemGetsJob ==
    [][ \A w \in NormWorkers, key \in Keys :
            (/\ norm[w].item.idempotencyKey = key /\ WantsMedia(norm[w].item)
             /\ norm[w].pc \notin {"free", "loop"} /\ norm'[w].pc \in {"free", "loop"})
                => ~Abandoned(key)' ]_vars

\* C38: for one idempotency key, whatever the interleaving of the normalize jobs that
\* hold an item with the key, at most one media or AI job is enqueued in all (the
\* collaborator answering created = true to at most one create call for the key).
C38_OneDownstreamJobPerKey ==
    \A key \in Keys :
        /\ Cardinality(DownstreamJobs(key, enqueued)) <= 1
        /\ \A j \in DownstreamJobs(key, enqueued) : CopiesIn(j, enqueued) = 1

\* two jobs overlapped on one key: the first created the item and enqueued its job,
\* the second passed the dedup check and the cache before the marks were written and
\* was answered created = false
C38_Witness ==
    \E key \in Keys :
        /\ norm["w1"].pc = "loop" /\ norm["w1"].counts["mediaEnqueued"] = 1
        /\ Cardinality(DownstreamJobs(key, enqueued)) = 1
        /\ norm["w2"].pc = "markContent" /\ norm["w2"].item.idempotencyKey = key
        /\ ~norm["w2"].created
        /\ WantsMedia(norm["w2"].item)

\* call c is in flight and was admitted as a probe in the half-open period that runs
CurrentProbe(c) ==
    calls[c].pc = "running" /\ calls[c].probe /\ ~calls[c].earlier

\* C39: only the successes of calls admitted as probes in the current half-open
\* period count towards closing: while the breaker is HALF_OPEN, a call admitted
\* earlier (while CLOSED, or as a probe of a previous half-open period) that completes
\* leaves the success count as it is and does not close the breaker; so the breaker
\* closes only when half_open_probes probes of the current period have succeeded.
C39_OnlyCurrentProbesClose ==
    [][ \A c \in Calls :
            (/\ breaker.state = HALF_OPEN
             /\ calls[c].pc = "running" /\ calls'[c].pc = "idle"
             /\ ~CurrentProbe(c))
                => /\ breaker'.successCount = breaker.successCount
                   /\ breaker'.state # CLOSED ]_vars

\* C40: after a consumeRateLimit call on a key was denied with reset_ms = r, a call on
\* the same key made r or more after the denied call returned is allowed, when no
\* hit was recorded on the key in between (both calls ran beside no other call, and
\* every call made between them was denied).
C40_AllowedAfterReset ==
    \A k \in RateKeys :
        LET cs == ConsumesOf(k)
        IN \A i \in 1..Len(cs), j \in 1..Len(cs) :
              (/\ i < j
               /\ cs[i].done /\ ~cs[i].overlap /\ ~cs[i].result.allowed
               /\ cs[j].done /\ ~cs[j].overlap
               /\ cs[j].at >= cs[i].ret + cs[i].result.resetMs
               /\ \A m \in (i + 1)..(j - 1) : cs[m].done /\ ~cs[m].result.allowed)
                  => cs[j].result.allowed

=============================================================================
